---- MODULE Spec2Model ----
(***************************************************************************)
(* Model of the go-crud data-access layer: the generic BaseModel over a    *)
(* document collection, the books and users resource models built on it,  *)
(* and the search pipeline builder.                                        *)
(*                                                                         *)
(* A Go string is a sequence of one-character strings (<<>> is "").  A Go  *)
(* slice is a record [isNil, elems], so that a nil slice and an empty      *)
(* slice are different values.  An error is the name of the error value,   *)
(* "nil" when there is none; the message of an error value is modelled    *)
(* where the error constructor is, in the specification of the shared     *)
(* error value.                                                            *)
(***************************************************************************)
EXTENDS Integers, Sequences, FiniteSets, TLC

VARIABLES
    ItemIDKey,       \* BaseModel.ItemIDKey: "book_id" or "user_id"
    SearchLenLimit,  \* BaseModel.SearchLenLimit: the page size
    Coll,            \* BaseModel.Coll: the documents of the collection, in natural order
    pc,              \* per request goroutine: "idle", "insert" between pre-check and InsertOne, or its place in New
    req,             \* per request goroutine: the item of the Insert, or the id of the GetByID, in flight
    last,            \* the latest completed call: operation, arguments, returned error and values
    builder,         \* a SearchPipelineBuilder in the hands of a caller
    call,            \* the latest call on the builder: arguments, returned error, builder before it
    Message,         \* ObjectIDNotFoundError.Message: the two words (data, len) of the string New writes
    environ,         \* the environment variables of the process
    setupEnv,        \* package env: var setupEnv
    env              \* package env: var env

\* The state outside the model of a resource: the builder and its caller,
\* the shared error value, the configuration.
libVars == <<builder, call, Message, environ, setupEnv, env>>

vars == <<ItemIDKey, SearchLenLimit, Coll, pc, req, last, libVars>>

-----------------------------------------------------------------------------
(* Bounds of the model *)

\* Largest page size a model is constructed with.
MaxLimit == 2

\* Largest current_page a search request carries (-1 and 0 are the invalid pages).
MaxPage == 4

\* The request goroutines of the concurrent specification.
Procs == {"p1", "p2"}

-----------------------------------------------------------------------------
(* Strings and slices *)

NilSlice == [isNil |-> TRUE, elems |-> <<>>]

MkSlice(s) == [isNil |-> FALSE, elems |-> s]

\* len(slice)
SliceLen(s) == Len(s.elems)

\* Byte value of a character (binary string comparison of the store).
CharCode(c) ==
    CASE c = "\n" -> 10
      [] c = "$" -> 36
      [] c = "A" -> 65
      [] c = "B" -> 66
      [] c = "^" -> 94
      [] c = "a" -> 97
      [] c = "b" -> 98
      [] c = "c" -> 99
      [] OTHER -> 0

\* Case folding of the regex option "i".
FoldCase(c) ==
    CASE c = "A" -> "a"
      [] c = "B" -> "b"
      [] OTHER -> c

FoldStr(s) == [i \in 1..Len(s) |-> FoldCase(s[i])]

\* -1, 0 or 1: lexicographic comparison of two strings by byte value.
RECURSIVE StrCmp(_, _)
StrCmp(a, b) ==
    IF a = <<>> /\ b = <<>> THEN 0
    ELSE IF a = <<>> THEN -1
    ELSE IF b = <<>> THEN 1
    ELSE IF CharCode(Head(a)) < CharCode(Head(b)) THEN -1
    ELSE IF CharCode(Head(a)) > CharCode(Head(b)) THEN 1
    ELSE StrCmp(Tail(a), Tail(b))

\* strings.EqualFold(s, ""): only the empty string folds to the empty string.
IsEmptyString(s) == Len(s) = 0

-----------------------------------------------------------------------------
(* Items: objects.Book and objects.User, fields named by their bson keys *)

IsBooks(idKey) == idKey = "book_id"

BookStringKeys == {"book_id", "title", "author", "description"}

UserKeys == {"user_id", "username", "password", "account_name", "email"}

MkBook(id, title, author, description, categories) ==
    [book_id |-> id, title |-> title, author |-> author,
     description |-> description, categories |-> categories]

MkUser(id, username, password, accountName, email) ==
    [user_id |-> id, username |-> username, password |-> password,
     account_name |-> accountName, email |-> email]

\* The zero value of the item type.
ZeroItem(idKey) ==
    IF IsBooks(idKey)
    THEN MkBook(<<>>, <<>>, <<>>, <<>>, NilSlice)
    ELSE MkUser(<<>>, <<>>, <<>>, <<>>, <<>>)

\* Item.GetID()
GetID(idKey, item) == item[idKey]

-----------------------------------------------------------------------------
(* BSON conversion of items *)

\* The keys bson.Marshal writes: a string field tagged omitempty is left out
\* when it is empty; categories has no omitempty and is always written (a
\* nil slice as null).
MarshalKeys(idKey, item) ==
    IF IsBooks(idKey)
    THEN {k \in BookStringKeys : ~IsEmptyString(item[k])} \cup {"categories"}
    ELSE {k \in UserKeys : ~IsEmptyString(item[k])}

\* bson.Marshal(item): the document as a function from the written keys.
Marshal(idKey, item) == [k \in MarshalKeys(idKey, item) |-> item[k]]

\* Decode(&item) with a document that lost its categories (faulty variant).
DecodeDropCategories(idKey, doc) ==
    IF IsBooks(idKey)
    THEN [k \in BookStringKeys \cup {"categories"} |->
            IF k = "categories" THEN NilSlice
            ELSE IF k \in DOMAIN doc THEN doc[k] ELSE <<>>]
    ELSE [k \in UserKeys |-> IF k = "email" \/ k \notin DOMAIN doc THEN <<>> ELSE doc[k]]

\* result.Decode(&item): a key the document lacks leaves the zero value.
Decode(idKey, doc) ==
    IF IsBooks(idKey)
    THEN [k \in BookStringKeys \cup {"categories"} |->
            IF k \in DOMAIN doc THEN doc[k]
            ELSE IF k = "categories" THEN NilSlice ELSE <<>>]
    ELSE [k \in UserKeys |-> IF k \in DOMAIN doc THEN doc[k] ELSE <<>>]

-----------------------------------------------------------------------------
(* The collection: validator, unique indexes and single-document commands *)

\* uniqueItems of the categories schema.
UniqueItems(s) == \A i, j \in 1..Len(s) : s[i] = s[j] => i = j

\* The $jsonSchema validator of the collection (validationLevel strict):
\* every required key present; categories an array of unique strings.
Validator(idKey, doc) ==
    IF IsBooks(idKey)
    THEN /\ BookStringKeys \cup {"categories"} \subseteq DOMAIN doc
         /\ ~doc["categories"].isNil
         /\ UniqueItems(doc["categories"].elems)
    ELSE UserKeys \subseteq DOMAIN doc

\* Unique indexes without the one on the item id (faulty variant).
UniqueIndexKeysNoID(idKey) == IF IsBooks(idKey) THEN {} ELSE {"account_name"}

\* The keys that carry a unique index: book_id_1; user_id_1 and account_name_1.
UniqueIndexKeys(idKey) ==
    IF IsBooks(idKey) THEN {"book_id"} ELSE {"user_id", "account_name"}

\* doc would violate a unique index against the documents of coll other
\* than the one at position skip (0: none skipped).
DuplicateKey(idKey, coll, doc, skip) ==
    \E i \in 1..Len(coll) :
        /\ i # skip
        /\ \E k \in UniqueIndexKeys(idKey) :
              k \in DOMAIN doc /\ k \in DOMAIN coll[i] /\ coll[i][k] = doc[k]

\* Positions of the documents whose field key equals value.
FindPositions(coll, key, value) ==
    {i \in 1..Len(coll) : key \in DOMAIN coll[i] /\ coll[i][key] = value}

Min(S) == CHOOSE x \in S : \A y \in S : x <= y

\* Coll.InsertOne(doc): the validator and the unique indexes decide.
InsertOne(idKey, coll, doc) ==
    IF ~Validator(idKey, doc)
    THEN [err |-> "DocumentValidationFailure", coll |-> coll]
    ELSE IF DuplicateKey(idKey, coll, doc, 0)
    THEN [err |-> "DuplicateKey", coll |-> coll]
    ELSE [err |-> "nil", coll |-> Append(coll, doc)]

\* The document with the fields of set overwritten ($set).
ApplySet(doc, set) ==
    [k \in DOMAIN doc \cup DOMAIN set |-> IF k \in DOMAIN set THEN set[k] ELSE doc[k]]

\* FindOneAndUpdate that stores a new document when the filter matches none
\* (faulty variant: an upsert).
FindOneAndUpdateUpsert(idKey, coll, key, value, hasSet, set) ==
    LET pos == FindPositions(coll, key, value) IN
    IF ~hasSet
    THEN [err |-> "FailedToParse", coll |-> coll]
    ELSE IF pos = {}
    THEN [err |-> "nil", coll |-> Append(coll, ApplySet((key :> value), set))]
    ELSE [err |-> "nil", coll |-> [coll EXCEPT ![Min(pos)] = ApplySet(coll[Min(pos)], set)]]

\* Coll.FindOneAndUpdate(filter {key: value}, {$set: set}).  hasSet is false
\* when the $set operand is a nil bson.D, which is encoded as null and
\* rejected by the store before any document is looked up.
FindOneAndUpdate(idKey, coll, key, value, hasSet, set) ==
    LET pos == FindPositions(coll, key, value) IN
    IF ~hasSet
    THEN [err |-> "FailedToParse", coll |-> coll]
    ELSE IF pos = {}
    THEN [err |-> "ErrNoDocuments", coll |-> coll]
    ELSE LET i == Min(pos)
             new == ApplySet(coll[i], set) IN
         IF ~Validator(idKey, new)
         THEN [err |-> "DocumentValidationFailure", coll |-> coll]
         ELSE IF DuplicateKey(idKey, coll, new, i)
         THEN [err |-> "DuplicateKey", coll |-> coll]
         ELSE [err |-> "nil", coll |-> [coll EXCEPT ![i] = new]]

\* FindOneAndDelete that finds the document but leaves it stored (faulty variant).
FindOneAndDeleteKeeps(coll, key, value) ==
    IF FindPositions(coll, key, value) = {}
    THEN [err |-> "ErrNoDocuments", coll |-> coll]
    ELSE [err |-> "nil", coll |-> coll]

\* Coll.FindOneAndDelete(filter {key: value})
FindOneAndDelete(coll, key, value) ==
    LET pos == FindPositions(coll, key, value) IN
    IF pos = {}
    THEN [err |-> "ErrNoDocuments", coll |-> coll]
    ELSE LET i == Min(pos) IN
         [err |-> "nil",
          coll |-> [j \in 1..(Len(coll) - 1) |-> IF j < i THEN coll[j] ELSE coll[j + 1]]]

-----------------------------------------------------------------------------
(* BaseModel: Insert, GetByID, Update, Delete *)

\* BaseModel.Insert: InsertOne; a duplicate-key error becomes DuplicatedObjectID,
\* any other store error is returned as it is.
BaseModelInsert(idKey, coll, item) ==
    LET r == InsertOne(idKey, coll, Marshal(idKey, item)) IN
    [err |-> IF r.err = "DuplicateKey" THEN "DuplicatedObjectID" ELSE r.err,
     coll |-> r.coll]

\* BaseModel.GetByID: FindOne by the id key and Decode; ErrNoDocuments becomes
\* ObjectIDNotFound and the item stays the zero value.
BaseModelGetByID(idKey, coll, itemID) ==
    LET pos == FindPositions(coll, idKey, itemID) IN
    IF pos = {}
    THEN [err |-> "ObjectIDNotFound", item |-> ZeroItem(idKey)]
    ELSE [err |-> "nil", item |-> Decode(idKey, coll[Min(pos)])]

\* The $set operand of Update: every marshalled field but the id key.
UpdateBson(idKey, item) ==
    LET doc == Marshal(idKey, item) IN
    [k \in (DOMAIN doc) \ {idKey} |-> doc[k]]

\* BaseModel.Update: FindOneAndUpdate with $set of the non-key fields;
\* ErrNoDocuments becomes ObjectIDNotFound, any other error is returned as it is.
BaseModelUpdate(idKey, coll, item) ==
    LET set == UpdateBson(idKey, item)
        r == FindOneAndUpdate(idKey, coll, idKey, GetID(idKey, item), DOMAIN set # {}, set) IN
    [err |-> IF r.err = "ErrNoDocuments" THEN "ObjectIDNotFound" ELSE r.err,
     coll |-> r.coll]

\* BaseModel.Delete: FindOneAndDelete by the id key.
BaseModelDelete(idKey, coll, itemID) ==
    LET r == FindOneAndDelete(coll, idKey, itemID) IN
    [err |-> IF r.err = "ErrNoDocuments" THEN "ObjectIDNotFound" ELSE r.err,
     coll |-> r.coll]

-----------------------------------------------------------------------------
(* BooksModel.Insert and UsersModel.Insert *)

\* Validation of BooksModel.Insert that accepts nil categories (faulty variant).
BookValidAnyCategories(book) == \A k \in BookStringKeys : ~IsEmptyString(book[k])

\* Field-presence validation of BooksModel.Insert.
BookValid(book) ==
    /\ \A k \in BookStringKeys : ~IsEmptyString(book[k])
    /\ ~book["categories"].isNil

\* Field-presence validation of UsersModel.Insert.
UserValid(user) == \A k \in UserKeys : ~IsEmptyString(user[k])

\* The keys of the $or filter of the pre-check, without the id key (faulty variant).
PreCheckKeysNoID(idKey) ==
    IF IsBooks(idKey) THEN {} ELSE {"username", "account_name", "email"}

\* The keys of the $or filter of the pre-check FindOne.
PreCheckKeys(idKey) ==
    IF IsBooks(idKey) THEN {"book_id"} ELSE {"user_id", "username", "account_name", "email"}

\* The pre-check FindOne returns a document (err == nil).
InUse(idKey, coll, item) ==
    \E k \in PreCheckKeys(idKey) : FindPositions(coll, k, item[k]) # {}

\* The part of Insert before BaseModel.Insert: the error it returns, "nil"
\* when it goes on to insert.  UsersModel.Insert returns errors.New(";w;")
\* for a validation failure.
InsertCheck(idKey, coll, item) ==
    IF IsBooks(idKey)
    THEN IF ~BookValid(item) THEN "DataValidationFailed"
         ELSE IF InUse(idKey, coll, item) THEN "DataAlreadyInUsed"
         ELSE "nil"
    ELSE IF ~UserValid(item) THEN ";w;"
         ELSE IF InUse(idKey, coll, item) THEN "DataAlreadyInUsed"
         ELSE "nil"

\* BooksModel.Insert / UsersModel.Insert run without interruption.
ModelInsert(idKey, coll, item) ==
    LET e == InsertCheck(idKey, coll, item) IN
    IF e # "nil" THEN [err |-> e, coll |-> coll]
    ELSE BaseModelInsert(idKey, coll, item)

-----------------------------------------------------------------------------
(* Search options and results *)

\* models.MatchOptions{MatchType, Value}
MkMatch(matchType, value) == [MatchType |-> matchType, Value |-> value]

\* MatchOptions.IsNil(): reflect.ValueOf(opt).IsZero()
IsNil(opt) == opt.MatchType = 0 /\ opt.Value = <<>>

\* books.SearchOptions
MkBookOpt(page, title, author, categories) ==
    [CurrentPage |-> page, Title |-> title, Author |-> author, Categories |-> categories]

\* users.SearchOptions
MkUserOpt(page, userID, username, accountName, email) ==
    [CurrentPage |-> page, UserID |-> userID, Username |-> username,
     AccountName |-> accountName, Email |-> email]

ZeroOpt(idKey) ==
    IF IsBooks(idKey)
    THEN MkBookOpt(0, MkMatch(0, <<>>), MkMatch(0, <<>>), NilSlice)
    ELSE MkUserOpt(0, <<>>, MkMatch(0, <<>>), MkMatch(0, <<>>), MkMatch(0, <<>>))

\* The zero value of models.PaginationData.
EmptyPage == [Page |-> 0, TotalPages |-> 0, Count |-> 0, Data |-> NilSlice]

-----------------------------------------------------------------------------
(* Match-predicate compiler (CreateMatchBson and the five fragment builders) *)

\* A value of type any: a string, a slice of strings, or the nil interface.
AnyString(s) == [kind |-> "string", v |-> s]

AnySlice(sl) == [kind |-> "slice", v |-> sl]

AnyNil == [kind |-> "nil", v |-> <<>>]

\* The text %s prints for the value (the resource models pass strings to
\* the regex builders).
Sprint(value) == IF value.kind = "string" THEN value.v ELSE <<>>

\* EqualMatchBson: {key: value}
EqualMatchBson(key, value) ==
    [Key |-> key, op |-> "$eq", value |-> value, options |-> {}]

\* PartialMatchBson: {key: {$regex: value, $options: "i"}}
PartialMatchBson(key, value) ==
    [Key |-> key, op |-> "$regex", value |-> AnyString(Sprint(value)), options |-> {"i"}]

\* StartWithMatchBson: {key: {$regex: "^" + value, $options: "im"}}
StartWithMatchBson(key, value) ==
    [Key |-> key, op |-> "$regex", value |-> AnyString(<<"^">> \o Sprint(value)),
     options |-> {"i", "m"}]

\* EndWithMatchBson: {key: {$regex: value + "$", $options: "im"}}
EndWithMatchBson(key, value) ==
    [Key |-> key, op |-> "$regex", value |-> AnyString(Sprint(value) \o <<"$">>),
     options |-> {"i", "m"}]

\* The empty filter bson.D{}.
EmptyMatchBson == [Key |-> "", op |-> "$all", value |-> AnyString(<<>>), options |-> {}]

\* ContainsInMatchBson: {key: {$in: value}}, or MatchValueInvalid when the
\* value is neither an array nor a slice.  reflect.TypeOf of the nil
\* interface is nil, and Kind() on it panics.
ContainsInMatchBson(key, value) ==
    IF value.kind = "nil"
    THEN [err |-> "panic", bson |-> EmptyMatchBson]
    ELSE IF value.kind # "slice"
    THEN [err |-> "MatchValueInvalid", bson |-> EmptyMatchBson]
    ELSE [err |-> "nil",
          bson |-> [Key |-> key, op |-> "$in", value |-> value, options |-> {}]]

EqualMatchType == 0
PartialMatchType == 1
StartWithMatchType == 2
EndWithMatchType == 3
ContainsInMatchType == 4

\* The largest value of MatchType (uint8).
MaxMatchType == 255

\* CreateMatchBson that compiles an unknown match type as Equal (faulty variant).
CreateMatchBsonDefaultEqual(key, value, matchType) ==
    CASE matchType = PartialMatchType -> [err |-> "nil", bson |-> PartialMatchBson(key, value)]
      [] matchType = StartWithMatchType -> [err |-> "nil", bson |-> StartWithMatchBson(key, value)]
      [] matchType = EndWithMatchType -> [err |-> "nil", bson |-> EndWithMatchBson(key, value)]
      [] matchType = ContainsInMatchType -> ContainsInMatchBson(key, value)
      [] OTHER -> [err |-> "nil", bson |-> EqualMatchBson(key, value)]

\* CreateMatchBson: the fragment of the match type, or MatchTypeInvalid.
CreateMatchBson(key, value, matchType) ==
    CASE matchType = EqualMatchType -> [err |-> "nil", bson |-> EqualMatchBson(key, value)]
      [] matchType = PartialMatchType -> [err |-> "nil", bson |-> PartialMatchBson(key, value)]
      [] matchType = StartWithMatchType -> [err |-> "nil", bson |-> StartWithMatchBson(key, value)]
      [] matchType = EndWithMatchType -> [err |-> "nil", bson |-> EndWithMatchBson(key, value)]
      [] matchType = ContainsInMatchType -> ContainsInMatchBson(key, value)
      [] OTHER -> [err |-> "MatchTypeInvalid", bson |-> EmptyMatchBson]

-----------------------------------------------------------------------------
(* SearchPipelineBuilder *)

SortASC == 1
SortDESC == -1

MkSort(key, sortBy) == [Key |-> key, SortBy |-> sortBy]

\* new(SearchPipelineBuilder): every field nil.
NewSearchPipelineBuilder ==
    [matches |-> NilSlice,
     sorts |-> NilSlice,
     skip |-> [isNil |-> TRUE, n |-> 0],
     limit |-> [isNil |-> TRUE, n |-> 0],
     sortKeys |-> [isNil |-> TRUE, keys |-> {}],
     matchKeys |-> [isNil |-> TRUE, keys |-> {}]]

\* The loop of SortedBy without the test for a key already used (faulty variant).
SortLoopAppendAll(sortList, sortKeys, rest) ==
    [err |-> "nil", sortList |-> sortList \o rest,
     sortKeys |-> sortKeys \cup {rest[i].Key : i \in 1..Len(rest)}]

\* The loop of SortedBy over the rest of the list: a key already in sortKeys
\* ends it with MatchKeyDuplicated; the keys added before stay in sortKeys.
RECURSIVE SortLoop(_, _, _)
SortLoop(sortList, sortKeys, rest) ==
    IF rest = <<>>
    THEN [err |-> "nil", sortList |-> sortList, sortKeys |-> sortKeys]
    ELSE IF Head(rest).Key \in sortKeys
    THEN [err |-> "MatchKeyDuplicated", sortList |-> sortList, sortKeys |-> sortKeys]
    ELSE SortLoop(Append(sortList, Head(rest)), sortKeys \cup {Head(rest).Key}, Tail(rest))

\* SearchPipelineBuilder.SortedBy
SortedBy(b, sortDataList) ==
    IF Len(sortDataList) = 0
    THEN [err |-> "SortListInvalid", b |-> b]
    ELSE LET b1 == IF b.sorts.isNil
                   THEN [b EXCEPT !.sorts = MkSlice(<<>>),
                                  !.sortKeys = [isNil |-> FALSE, keys |-> {}]]
                   ELSE b
             r == SortLoop(b1.sorts.elems, b1.sortKeys.keys, sortDataList) IN
         IF r.err # "nil"
         THEN [err |-> r.err, b |-> [b1 EXCEPT !.sortKeys.keys = r.sortKeys]]
         ELSE [err |-> "nil",
               b |-> [b1 EXCEPT !.sortKeys.keys = r.sortKeys,
                                !.sorts = MkSlice(r.sortList)]]

\* SearchPipelineBuilder.Match.  Writing to matchKeys while it is a nil map
\* (matches made non-nil by createMatchStage) panics after the append.
Match(b, key, value, matchType) ==
    LET b1 == IF b.matches.isNil
              THEN [b EXCEPT !.matches = MkSlice(<<>>),
                             !.matchKeys = [isNil |-> FALSE, keys |-> {}]]
              ELSE b
        m == CreateMatchBson(key, value, matchType) IN
    IF key \in b1.matchKeys.keys
    THEN [err |-> "MatchKeyDuplicated", b |-> b1]
    ELSE IF m.err # "nil"
    THEN [err |-> m.err, b |-> b1]
    ELSE LET b2 == [b1 EXCEPT !.matches = MkSlice(Append(b1.matches.elems, m.bson))] IN
         IF b2.matchKeys.isNil
         THEN [err |-> "panic", b |-> b2]
         ELSE [err |-> "nil", b |-> [b2 EXCEPT !.matchKeys.keys = @ \cup {key}]]

\* SearchPipelineBuilder.Skip
Skip(b, count) == [b EXCEPT !.skip = [isNil |-> FALSE, n |-> count]]

\* SearchPipelineBuilder.Limit
Limit(b, count) == [b EXCEPT !.limit = [isNil |-> FALSE, n |-> count]]

MkStage(name, arg) == [stage |-> name, arg |-> arg]

\* The builder after createMatchStage: an empty matches gets the empty filter.
AfterMatchStage(b) ==
    IF SliceLen(b.matches) = 0
    THEN [b EXCEPT !.matches = MkSlice(<<EmptyMatchBson>>)]
    ELSE b

\* createMatchStage: {$match: {$and: b.matches}}
createMatchStage(b) == MkStage("$match", AfterMatchStage(b).matches.elems)

\* The page branch without the $skip stage (faulty variant).
PaginateResultQueryNoSkip(b) ==
    (IF b.sorts.isNil THEN <<>> ELSE <<MkStage("$sort", b.sorts.elems)>>)
    \o (IF b.limit.isNil THEN <<>> ELSE <<MkStage("$limit", b.limit.n)>>)
    \o <<MkStage("$group", 0)>>

\* The page branch with $limit ahead of $skip (faulty variant).
PaginateResultQueryLimitFirst(b) ==
    (IF b.sorts.isNil THEN <<>> ELSE <<MkStage("$sort", b.sorts.elems)>>)
    \o (IF b.limit.isNil THEN <<>> ELSE <<MkStage("$limit", b.limit.n)>>)
    \o (IF b.skip.isNil THEN <<>> ELSE <<MkStage("$skip", b.skip.n)>>)
    \o <<MkStage("$group", 0)>>

\* The page branch of createFacetStage: $sort, $skip, $limit when set, then $group.
PaginateResultQuery(b) ==
    (IF b.sorts.isNil THEN <<>> ELSE <<MkStage("$sort", b.sorts.elems)>>)
    \o (IF b.skip.isNil THEN <<>> ELSE <<MkStage("$skip", b.skip.n)>>)
    \o (IF b.limit.isNil THEN <<>> ELSE <<MkStage("$limit", b.limit.n)>>)
    \o <<MkStage("$group", 0)>>

\* The count branch of createFacetStage: {$count: "total"}
MatchResultQuery == <<MkStage("$count", 0)>>

\* createFacetStage
createFacetStage(b) ==
    MkStage("$facet",
            [paginate_result |-> PaginateResultQuery(b), match_result |-> MatchResultQuery])

\* createProjectStage: count and data from the first page group, total from
\* the first count document.
createProjectStage == MkStage("$project", [count |-> "paginate_result", total |-> "match_result",
                                           data |-> "paginate_result"])

\* SearchPipelineBuilder.BuildPipeline
BuildPipeline(b) == <<createMatchStage(b), createFacetStage(b), createProjectStage>>

-----------------------------------------------------------------------------
(* Coll.Aggregate: the store running the built pipeline *)

\* The regular expression matches s: a leading ^ and a trailing $ anchor the
\* literal rest of the pattern; option i ignores case; with option m the
\* anchors also match after and before a line break inside s, without it $
\* also matches before a line break that ends s.
RegexMatch(pattern, options, s) ==
    LET anchoredStart == Len(pattern) > 0 /\ Head(pattern) = "^"
        p1 == IF anchoredStart THEN Tail(pattern) ELSE pattern
        anchoredEnd == Len(p1) > 0 /\ p1[Len(p1)] = "$"
        lit0 == IF anchoredEnd THEN SubSeq(p1, 1, Len(p1) - 1) ELSE p1
        lit == IF "i" \in options THEN FoldStr(lit0) ELSE lit0
        text == IF "i" \in options THEN FoldStr(s) ELSE s
        lineStart(i) == i = 1 \/ ("m" \in options /\ text[i - 1] = "\n")
        lineEnd(e) ==
            \/ e = Len(text)
            \/ "m" \in options /\ text[e + 1] = "\n"
            \/ e = Len(text) - 1 /\ text[e + 1] = "\n" IN
    \E i \in 1..(Len(text) - Len(lit) + 1) :
        /\ SubSeq(text, i, i + Len(lit) - 1) = lit
        /\ anchoredStart => lineStart(i)
        /\ anchoredEnd => lineEnd(i + Len(lit) - 1)

\* The document satisfies one match fragment.
MatchesBson(doc, m) ==
    CASE m.op = "$all" -> TRUE
      [] m.op = "$eq" -> m.Key \in DOMAIN doc /\ doc[m.Key] = m.value.v
      [] m.op = "$regex" -> m.Key \in DOMAIN doc /\ RegexMatch(m.value.v, m.options, doc[m.Key])
      [] m.op = "$in" ->
            /\ m.Key \in DOMAIN doc
            /\ \E i \in 1..Len(doc[m.Key].elems), j \in 1..Len(m.value.v.elems) :
                  doc[m.Key].elems[i] = m.value.v.elems[j]
      [] OTHER -> FALSE

\* The $match stage selecting a document that satisfies some fragment (faulty variant).
MatchStageAny(coll, and) ==
    SelectSeq(coll, LAMBDA doc : \E i \in 1..Len(and) : MatchesBson(doc, and[i]))

\* The $match stage: the documents that satisfy every fragment of $and.
MatchStage(coll, and) ==
    SelectSeq(coll, LAMBDA doc : \A i \in 1..Len(and) : MatchesBson(doc, and[i]))

\* -1, 0 or 1: the order of two documents under the sort keys.
RECURSIVE DocCmp(_, _, _)
DocCmp(d1, d2, sortList) ==
    IF sortList = <<>> THEN 0
    ELSE LET c == StrCmp(d1[Head(sortList).Key], d2[Head(sortList).Key]) * Head(sortList).SortBy IN
         IF c # 0 THEN c ELSE DocCmp(d1, d2, Tail(sortList))

\* The $sort stage leaving the documents in their natural order (faulty variant).
SortStageNatural(docs, sortList) == {docs}

\* The $sort stage: every ordering of docs that respects the sort keys (the
\* store leaves the order of documents with equal keys open).
SortStage(docs, sortList) ==
    LET n == Len(docs)
        perms == {f \in [1..n -> 1..n] : \A i, j \in 1..n : f[i] = f[j] => i = j}
        sorted == {f \in perms : \A i \in 1..(n - 1) :
                        DocCmp(docs[f[i]], docs[f[i + 1]], sortList) <= 0} IN
    {[i \in 1..n |-> docs[f[i]]] : f \in sorted}

\* The $skip stage.
SkipStage(docs, n) == SubSeq(docs, n + 1, Len(docs))

\* The $limit stage.
LimitStage(docs, n) == SubSeq(docs, 1, IF n < Len(docs) THEN n ELSE Len(docs))


\* The outcomes of running the stages of a facet branch over docs.
RECURSIVE RunStages(_, _)
RunStages(docs, stages) ==
    IF stages = <<>> THEN {docs}
    ELSE LET st == Head(stages)
             outs ==
                CASE st.stage = "$sort" -> SortStage(docs, st.arg)
                  [] st.stage = "$skip" -> {SkipStage(docs, st.arg)}
                  [] st.stage = "$limit" -> {LimitStage(docs, st.arg)}
                  [] st.stage = "$group" ->
                        {IF Len(docs) = 0 THEN <<>>
                         ELSE <<[data |-> docs, count |-> Len(docs)]>>}
                  [] st.stage = "$count" ->
                        {IF Len(docs) = 0 THEN <<>> ELSE <<[total |-> Len(docs)]>>}
                  [] OTHER -> {docs} IN
         UNION {RunStages(o, Tail(stages)) : o \in outs}

\* The $project stage decoded into AggregatedResult: $first of an empty
\* branch yields no field, which decodes to the zero value.
AggregatedResult(idKey, paginate, match) ==
    [Count |-> IF Len(paginate) = 0 THEN 0 ELSE paginate[1].count,
     Total |-> IF Len(match) = 0 THEN 0 ELSE match[1].total,
     Data |-> IF Len(paginate) = 0 THEN NilSlice
              ELSE MkSlice([i \in 1..Len(paginate[1].data) |->
                               Decode(idKey, paginate[1].data[i])])]

\* Coll.Aggregate(pipeline) and cur.All: the possible [err, result].  The
\* store rejects an empty $and.
Aggregate(idKey, coll, pipeline) ==
    LET and == pipeline[1].arg
        facet == pipeline[2].arg IN
    IF Len(and) = 0
    THEN {[err |-> "BadValue", result |-> [Count |-> 0, Total |-> 0, Data |-> NilSlice]]}
    ELSE LET matched == MatchStage(coll, and) IN
         {[err |-> "nil", result |-> AggregatedResult(idKey, p, t)] :
            p \in RunStages(matched, facet.paginate_result),
            t \in RunStages(matched, facet.match_result)}

-----------------------------------------------------------------------------
(* BaseModel.Search and the resource models' Search *)

\* totalPages of BaseModel.Search rounded down (faulty variant).
TotalPagesFloor(total, limit) == total \div limit

\* totalPages of BaseModel.Search: total / limit, one more for a remainder.
TotalPages(total, limit) ==
    IF total % limit > 0 THEN (total \div limit) + 1 ELSE total \div limit

\* The Count of PaginationData taken from the page group (faulty variant).
PageCountOfPage(aggResult) == aggResult.Count

\* The Count of PaginationData: aggResult.Total.
PageCount(aggResult) == aggResult.Total

\* The page check of BaseModel.Search.
CurrentPageInvalid(currentPage) == currentPage < 1

\* BaseModel.Search: the possible [err, page, aggregates], aggregates the
\* number of Coll.Aggregate calls made.
BaseModelSearch(idKey, limit, coll, currentPage, pipeline) ==
    IF CurrentPageInvalid(currentPage)
    THEN {[err |-> "CurrentPageInvalid", page |-> EmptyPage, aggregates |-> 0]}
    ELSE {IF a.err # "nil"
          THEN [err |-> a.err, page |-> EmptyPage, aggregates |-> 1]
          ELSE [err |-> "nil",
                page |-> [Page |-> currentPage,
                          TotalPages |-> TotalPages(a.result.Total, limit),
                          Count |-> PageCount(a.result),
                          Data |-> a.result.Data],
                aggregates |-> 1] :
          a \in Aggregate(idKey, coll, pipeline)}

\* builder.Match when the option is set, an option that fails being left
\* out of the pipeline (faulty variant).
MatchIfSkippingInvalid(cond, r, key, value, matchType) ==
    IF r.err # "nil" \/ ~cond THEN r
    ELSE LET m == Match(r.b, key, value, matchType) IN
         IF m.err # "nil" THEN r ELSE m

\* builder.Match when the option is set, otherwise the builder as it is.
MatchIf(cond, r, key, value, matchType) ==
    IF r.err # "nil" \/ ~cond THEN r ELSE Match(r.b, key, value, matchType)

\* The skip of the page: (CurrentPage - 1) * SearchLenLimit.
PageSkip(currentPage, limit) == (currentPage - 1) * limit

\* BooksModel.Search
BooksModelSearch(limit, coll, opt) ==
    LET s == SortedBy(NewSearchPipelineBuilder,
                      <<MkSort("title", SortASC), MkSort("author", SortASC)>>)
        b1 == Limit(Skip(s.b, PageSkip(opt.CurrentPage, limit)), limit)
        m1 == MatchIf(~IsNil(opt.Title), [err |-> s.err, b |-> b1],
                      "title", AnyString(opt.Title.Value), opt.Title.MatchType)
        m2 == MatchIf(~IsNil(opt.Author), m1,
                      "author", AnyString(opt.Author.Value), opt.Author.MatchType)
        m3 == MatchIf(~opt.Categories.isNil \/ SliceLen(opt.Categories) # 0, m2,
                      "categories", AnySlice(opt.Categories), ContainsInMatchType) IN
    IF m3.err # "nil"
    THEN {[err |-> m3.err, page |-> EmptyPage, aggregates |-> 0]}
    ELSE BaseModelSearch("book_id", limit, coll, opt.CurrentPage, BuildPipeline(m3.b))

\* UsersModel.Search (the error of SortedBy is dropped)
UsersModelSearch(limit, coll, opt) ==
    LET b1 == Limit(Skip(NewSearchPipelineBuilder, PageSkip(opt.CurrentPage, limit)), limit)
        s == SortedBy(b1, <<MkSort("user_id", SortASC)>>)
        m1 == MatchIf(~IsEmptyString(opt.UserID), [err |-> "nil", b |-> s.b],
                      "user_id", AnyString(opt.UserID), EqualMatchType)
        m2 == MatchIf(~IsNil(opt.AccountName), m1,
                      "account_name", AnyString(opt.AccountName.Value), opt.AccountName.MatchType)
        m3 == MatchIf(~IsNil(opt.Username), m2,
                      "username", AnyString(opt.Username.Value), opt.Username.MatchType)
        m4 == MatchIf(~IsNil(opt.Email), m3,
                      "email", AnyString(opt.Email.Value), opt.Email.MatchType) IN
    IF m4.err # "nil"
    THEN {[err |-> m4.err, page |-> EmptyPage, aggregates |-> 0]}
    ELSE BaseModelSearch("user_id", limit, coll, opt.CurrentPage, BuildPipeline(m4.b))

ModelSearch(idKey, limit, coll, opt) ==
    IF IsBooks(idKey) THEN BooksModelSearch(limit, coll, opt)
    ELSE UsersModelSearch(limit, coll, opt)

-----------------------------------------------------------------------------
(* Inputs of the requests *)

sA == <<"a">>
sB == <<"b">>
sC == <<"c">>
sAb == <<"A", "b">>
sMail == <<"a", "@", "b">>

\* Item ids of the requests; "c" is never stored by the CRUD requests.
ItemIDs == {<<>>, sA, sB, sC}

\* Items of the sequential CRUD requests, for each id in {"", "a", "b"}:
\* complete items, items with one field empty, with nil or repeated
\* categories, with several fields empty, and with the id alone.  A user's
\* email is "a", which has no e-mail format, or "a@b".
CrudItems(idKey) ==
    IF IsBooks(idKey)
    THEN {MkBook(id, f[1], f[2], f[3], f[4]) :
            id \in {<<>>, sA, sB},
            f \in {<<sA, sA, sA, MkSlice(<<sA>>)>>,
                   <<sB, sA, sA, MkSlice(<<>>)>>,
                   <<<<>>, sA, sA, MkSlice(<<sA>>)>>,
                   <<sA, <<>>, sA, MkSlice(<<sA>>)>>,
                   <<sA, sA, <<>>, MkSlice(<<sA>>)>>,
                   <<sA, sA, sA, NilSlice>>,
                   <<sA, sA, sA, MkSlice(<<sA, sA>>)>>,
                   <<<<>>, sB, sB, NilSlice>>,
                   <<<<>>, <<>>, <<>>, NilSlice>>}}
    ELSE {MkUser(id, f[1], f[2], f[3], f[4]) :
            id \in {<<>>, sA, sB},
            f \in {<<sA, sA, sA, sA>>,
                   <<sB, sA, sB, sMail>>,
                   <<sA, sA, sB, sMail>>,
                   <<sB, sA, sA, sMail>>,
                   <<sB, sA, sB, sA>>,
                   <<<<>>, sA, sA, sA>>,
                   <<sA, <<>>, sA, sA>>,
                   <<sA, sA, <<>>, sA>>,
                   <<sA, sA, sA, <<>>>>,
                   <<sB, <<>>, <<>>, <<>>>>,
                   <<<<>>, <<>>, <<>>, <<>>>>}}

\* Items of the concurrent requests: complete items, and a book whose
\* categories repeat an element.
ConcItems(idKey) ==
    IF IsBooks(idKey)
    THEN {MkBook(id, f[1], sA, sA, f[2]) :
            id \in {sA, sB},
            f \in {<<sA, MkSlice(<<sA>>)>>, <<sB, MkSlice(<<>>)>>, <<sA, MkSlice(<<sA, sA>>)>>}}
    ELSE {MkUser(id, f[1], sA, f[2], f[3]) :
            id \in {sA, sB},
            f \in {<<sA, sA, sA>>, <<sB, sB, sB>>, <<sA, sB, sB>>, <<sB, sA, sB>>}}

\* Items the search specification fills the collection with: books that tie
\* on the title, or on title and author, and users with distinct fields.
SearchItems(idKey) ==
    IF IsBooks(idKey)
    THEN {MkBook(sA, sA, sB, sA, MkSlice(<<sA>>)),
          MkBook(sB, sA, sA, sA, MkSlice(<<sB>>)),
          MkBook(sC, sAb, sA, sA, MkSlice(<<sA, sB>>)),
          MkBook(sC, sA, sB, sA, MkSlice(<<>>))}
    ELSE {MkUser(sA, sA, sA, sA, sA),
          MkUser(sB, sAb, sA, sB, sB),
          MkUser(sC, sC, sA, sC, sC),
          MkUser(sC, sB, sA, sAb, sAb)}

NoMatch == MkMatch(EqualMatchType, <<>>)

\* The match options and id filters of the search requests: none; valid
\* ones of every match type, alone and combined; match types no constant
\* names; ContainsIn with a string, alone and before a match type no
\* constant names.
SearchFilters(idKey) ==
    IF IsBooks(idKey)
    THEN {MkBookOpt(0, NoMatch, NoMatch, NilSlice),
          MkBookOpt(0, MkMatch(PartialMatchType, sA), NoMatch, NilSlice),
          MkBookOpt(0, MkMatch(EqualMatchType, sA), NoMatch, NilSlice),
          MkBookOpt(0, MkMatch(StartWithMatchType, sA), MkMatch(EndWithMatchType, sB), NilSlice),
          MkBookOpt(0, NoMatch, NoMatch, MkSlice(<<sB>>)),
          MkBookOpt(0, MkMatch(EqualMatchType, sA), NoMatch, MkSlice(<<sA, sC>>)),
          MkBookOpt(0, MkMatch(EndWithMatchType, sB), NoMatch, MkSlice(<<>>)),
          MkBookOpt(0, MkMatch(MaxMatchType, <<>>), NoMatch, NilSlice),
          MkBookOpt(0, NoMatch, MkMatch(ContainsInMatchType + 1, sA), NilSlice),
          MkBookOpt(0, MkMatch(ContainsInMatchType, sA), NoMatch, NilSlice),
          MkBookOpt(0, MkMatch(ContainsInMatchType, sA), MkMatch(MaxMatchType, sA), NilSlice)}
    ELSE {MkUserOpt(0, <<>>, NoMatch, NoMatch, NoMatch),
          MkUserOpt(0, sA, NoMatch, NoMatch, NoMatch),
          MkUserOpt(0, <<>>, MkMatch(PartialMatchType, sB), NoMatch, NoMatch),
          MkUserOpt(0, <<>>, MkMatch(StartWithMatchType, sA), MkMatch(EndWithMatchType, sB), NoMatch),
          MkUserOpt(0, <<>>, NoMatch, NoMatch, MkMatch(EqualMatchType, sAb)),
          MkUserOpt(0, sC, MkMatch(EqualMatchType, sC), NoMatch, MkMatch(PartialMatchType, sC)),
          MkUserOpt(0, sB, MkMatch(EqualMatchType, sA), NoMatch, NoMatch),
          MkUserOpt(0, <<>>, MkMatch(MaxMatchType, <<>>), NoMatch, NoMatch),
          MkUserOpt(0, <<>>, NoMatch, NoMatch, MkMatch(ContainsInMatchType + 1, sA)),
          MkUserOpt(0, <<>>, NoMatch, MkMatch(ContainsInMatchType, sA), NoMatch),
          MkUserOpt(0, <<>>, MkMatch(MaxMatchType, sA), MkMatch(ContainsInMatchType, sA), NoMatch)}

\* Search options of the search requests: every filter on every page
\* -1..MaxPage.
SearchOpts(idKey) ==
    {[f EXCEPT !.CurrentPage = page] : f \in SearchFilters(idKey), page \in (-1)..MaxPage}

-----------------------------------------------------------------------------
(* State machine *)

\* searchSize of NewBooksModel / NewUsersModel when no page size is given.
DefaultSearchSize == 10

\* No HTTP response: the call was made on the model directly.
NoResponse == [written |-> FALSE, status |-> 0, body |-> <<>>]

\* The record of a completed call; a Search adds the number of Aggregate
\* calls it made, a call made over HTTP adds the response.
MkLast(idKey, op, item, id, opt, err, out, page) ==
    [op |-> op, item |-> item, id |-> id, opt |-> opt, err |-> err, out |-> out, page |-> page,
     aggregates |-> 0, resp |-> NoResponse]

\* The zero value of a string variable: no data, length 0.
ZeroString == [data |-> <<>>, len |-> 0]

\* No call was made on the builder yet.
NoCall == [op |-> "none", err |-> "nil", before |-> NewSearchPipelineBuilder]

\* env.Env{}: the zero value of the configuration.
ZeroEnv ==
    [Server |-> [Port |-> 0],
     MongoDB |-> [Host |-> <<>>, Port |-> 0, User |-> <<>>, Password |-> <<>>, DB |-> <<>>]]

\* An environment GetEnv can load: both ports are numbers.
DefaultEnviron ==
    [MONGODB_HOST |-> sA, MONGODB_PORT |-> <<"1">>, MONGODB_USER |-> sA,
     MONGODB_PASSWORD |-> sA, MONGODB_NAME |-> sA, SERVER_PORT |-> <<"2">>]

\* NewBooksModel / NewUsersModel: Inject sets the collection, a page size of
\* at least 1 and the id key; the collection starts empty and no request runs.
InitModel(limits) ==
    /\ ItemIDKey \in {"book_id", "user_id"}
    /\ SearchLenLimit \in limits
    /\ Coll = <<>>
    /\ pc = [p \in Procs |-> "idle"]
    /\ req = [p \in Procs |-> ZeroItem(ItemIDKey)]
    /\ last = MkLast(ItemIDKey, "none", ZeroItem(ItemIDKey), <<>>, ZeroOpt(ItemIDKey),
                     "nil", ZeroItem(ItemIDKey), EmptyPage)
    /\ builder = NewSearchPipelineBuilder
    /\ call = NoCall
    /\ Message = ZeroString
    /\ setupEnv = FALSE
    /\ env = ZeroEnv

Init == InitModel({DefaultSearchSize}) /\ environ = DefaultEnviron

InitSearch == InitModel(1..MaxLimit) /\ environ = DefaultEnviron

\* Insert request run without interruption.
Insert(item) ==
    LET r == ModelInsert(ItemIDKey, Coll, item) IN
    /\ Coll' = r.coll
    /\ last' = MkLast(ItemIDKey, "Insert", item, <<>>, ZeroOpt(ItemIDKey), r.err,
                      ZeroItem(ItemIDKey), EmptyPage)
    /\ UNCHANGED <<libVars, ItemIDKey, SearchLenLimit, pc, req>>

\* GetByID request.
GetByID(itemID) ==
    LET r == BaseModelGetByID(ItemIDKey, Coll, itemID) IN
    /\ last' = MkLast(ItemIDKey, "GetByID", ZeroItem(ItemIDKey), itemID, ZeroOpt(ItemIDKey),
                      r.err, r.item, EmptyPage)
    /\ UNCHANGED <<libVars, ItemIDKey, SearchLenLimit, Coll, pc, req>>

\* Update request.
Update(item) ==
    LET r == BaseModelUpdate(ItemIDKey, Coll, item) IN
    /\ Coll' = r.coll
    /\ last' = MkLast(ItemIDKey, "Update", item, <<>>, ZeroOpt(ItemIDKey), r.err,
                      ZeroItem(ItemIDKey), EmptyPage)
    /\ UNCHANGED <<libVars, ItemIDKey, SearchLenLimit, pc, req>>

\* Delete request.
Delete(itemID) ==
    LET r == BaseModelDelete(ItemIDKey, Coll, itemID) IN
    /\ Coll' = r.coll
    /\ last' = MkLast(ItemIDKey, "Delete", ZeroItem(ItemIDKey), itemID, ZeroOpt(ItemIDKey),
                      r.err, ZeroItem(ItemIDKey), EmptyPage)
    /\ UNCHANGED <<libVars, ItemIDKey, SearchLenLimit, pc, req>>

\* Search request.
Search(opt) ==
    /\ \E r \in ModelSearch(ItemIDKey, SearchLenLimit, Coll, opt) :
          last' = [MkLast(ItemIDKey, "Search", ZeroItem(ItemIDKey), <<>>, opt, r.err,
                          ZeroItem(ItemIDKey), r.page) EXCEPT !.aggregates = r.aggregates]
    /\ UNCHANGED <<libVars, ItemIDKey, SearchLenLimit, Coll, pc, req>>

\* Concurrent Insert, first round trip: validation and the pre-check FindOne.
\* A failure completes the request; otherwise it goes on to InsertOne.
InsertBegin(p, item) ==
    LET e == InsertCheck(ItemIDKey, Coll, item) IN
    /\ pc[p] = "idle"
    /\ IF e # "nil"
       THEN /\ last' = MkLast(ItemIDKey, "Insert", item, <<>>, ZeroOpt(ItemIDKey), e,
                              ZeroItem(ItemIDKey), EmptyPage)
            /\ UNCHANGED <<pc, req>>
       ELSE /\ pc' = [pc EXCEPT ![p] = "insert"]
            /\ req' = [req EXCEPT ![p] = item]
            /\ UNCHANGED last
    /\ UNCHANGED <<libVars, ItemIDKey, SearchLenLimit, Coll>>

\* Concurrent Insert, second round trip: BaseModel.Insert.
InsertEnd(p) ==
    LET r == BaseModelInsert(ItemIDKey, Coll, req[p]) IN
    /\ pc[p] = "insert"
    /\ Coll' = r.coll
    /\ last' = MkLast(ItemIDKey, "Insert", req[p], <<>>, ZeroOpt(ItemIDKey), r.err,
                      ZeroItem(ItemIDKey), EmptyPage)
    /\ pc' = [pc EXCEPT ![p] = "idle"]
    /\ req' = [req EXCEPT ![p] = ZeroItem(ItemIDKey)]
    /\ UNCHANGED <<libVars, ItemIDKey, SearchLenLimit>>

\* Requests served one at a time.
NextSeq ==
    \/ \E item \in CrudItems(ItemIDKey) : Insert(item)
    \/ \E itemID \in ItemIDs : GetByID(itemID)
    \/ \E item \in CrudItems(ItemIDKey) : Update(item)
    \/ \E itemID \in ItemIDs : Delete(itemID)

SpecSeq == Init /\ [][NextSeq]_vars

\* Search requests over a collection filled and emptied one request at a time.
NextSearch ==
    \/ \E item \in SearchItems(ItemIDKey) : Insert(item)
    \/ \E itemID \in ItemIDs \ {<<>>} : Delete(itemID)
    \/ \E opt \in SearchOpts(ItemIDKey) : Search(opt)

SpecSearch == InitSearch /\ [][NextSearch]_vars

\* Requests served concurrently: each store round trip is one step.
NextConc ==
    \/ \E p \in Procs, item \in ConcItems(ItemIDKey) : InsertBegin(p, item)
    \/ \E p \in Procs : InsertEnd(p)
    \/ \E item \in ConcItems(ItemIDKey) : Update(item)
    \/ \E itemID \in {sA, sB} : Delete(itemID)

SpecConc == Init /\ [][NextConc]_vars

\* A value of two lines: "b", a line break, "a".
sLines == <<"b", "\n", "a">>

sBa == <<"b", "a">>

\* Items of the match requests: records whose title (books) or username
\* (users) is "Ab", "ba", "a" or the two lines "b" and "a".
MatchItems(idKey) ==
    IF IsBooks(idKey)
    THEN {MkBook(sA, sAb, sA, sA, MkSlice(<<sA>>)),
          MkBook(sB, sLines, sA, sA, MkSlice(<<sA>>)),
          MkBook(sB, sBa, sA, sA, MkSlice(<<sA>>)),
          MkBook(sC, sA, sA, sA, MkSlice(<<sA>>))}
    ELSE {MkUser(sA, sAb, sA, sA, sA),
          MkUser(sB, sLines, sA, sB, sB),
          MkUser(sB, sBa, sA, sB, sB),
          MkUser(sC, sA, sA, sC, sC)}

\* Search options of the match requests: page 1 and one match option, on
\* the title or the username, of each kind for strings with a value of
\* letters.
MatchOpts(idKey) ==
    {IF IsBooks(idKey)
     THEN MkBookOpt(1, MkMatch(kind, value), NoMatch, NilSlice)
     ELSE MkUserOpt(1, <<>>, MkMatch(kind, value), NoMatch, NoMatch) :
       kind \in EqualMatchType..EndWithMatchType, value \in {sA, sB, sAb, <<"A">>}}

\* Search requests with one match option over records of one and two lines.
NextMatch ==
    \/ \E item \in MatchItems(ItemIDKey) : Insert(item)
    \/ \E itemID \in {sA, sB, sC} : Delete(itemID)
    \/ \E opt \in MatchOpts(ItemIDKey) : Search(opt)

SpecMatch == Init /\ [][NextMatch]_vars

-----------------------------------------------------------------------------
(* Calls on a SearchPipelineBuilder *)

\* The record of a call on the builder.
MkCall(op, args, err, before, pipeline) ==
    [op |-> op, args |-> args, err |-> err, before |-> before, pipeline |-> pipeline]

\* Sort lists of the calls: empty, one key, two keys, a key twice.
SortLists ==
    {<<>>,
     <<MkSort("title", SortASC)>>,
     <<MkSort("author", SortDESC)>>,
     <<MkSort("title", SortASC), MkSort("author", SortASC)>>,
     <<MkSort("author", SortASC), MkSort("title", SortASC)>>,
     <<MkSort("author", SortASC), MkSort("author", SortDESC)>>}

\* Arguments of the Match calls: a string and a list, of kinds that fit the
\* value, that do not fit it and that no constant names; the nil interface.
MatchArgs ==
    {[key |-> "title", value |-> AnyString(sA), matchType |-> EqualMatchType],
     [key |-> "title", value |-> AnyString(sA), matchType |-> ContainsInMatchType + 1],
     [key |-> "categories", value |-> AnySlice(MkSlice(<<sA>>)), matchType |-> ContainsInMatchType],
     [key |-> "categories", value |-> AnyString(sA), matchType |-> ContainsInMatchType],
     [key |-> "categories", value |-> AnyNil, matchType |-> ContainsInMatchType]}

\* The caller goes on with the builder: no call on it has panicked.
InUseByCaller == call.err # "panic"

\* b.SortedBy(sortDataList)
CallSortedBy(sortDataList) ==
    LET r == SortedBy(builder, sortDataList) IN
    /\ InUseByCaller
    /\ builder' = r.b
    /\ call' = MkCall("SortedBy", sortDataList, r.err, builder, <<>>)
    /\ UNCHANGED <<ItemIDKey, SearchLenLimit, Coll, pc, req, last, Message, environ, setupEnv, env>>

\* b.Match(key, value, matchType)
CallMatch(a) ==
    LET r == Match(builder, a.key, a.value, a.matchType) IN
    /\ InUseByCaller
    /\ builder' = r.b
    /\ call' = MkCall("Match", a, r.err, builder, <<>>)
    /\ UNCHANGED <<ItemIDKey, SearchLenLimit, Coll, pc, req, last, Message, environ, setupEnv, env>>

\* b.Skip(count)
CallSkip(count) ==
    /\ InUseByCaller
    /\ builder' = Skip(builder, count)
    /\ call' = MkCall("Skip", count, "nil", builder, <<>>)
    /\ UNCHANGED <<ItemIDKey, SearchLenLimit, Coll, pc, req, last, Message, environ, setupEnv, env>>

\* b.Limit(count)
CallLimit(count) ==
    /\ InUseByCaller
    /\ builder' = Limit(builder, count)
    /\ call' = MkCall("Limit", count, "nil", builder, <<>>)
    /\ UNCHANGED <<ItemIDKey, SearchLenLimit, Coll, pc, req, last, Message, environ, setupEnv, env>>

\* b.BuildPipeline(): createMatchStage leaves the empty filter in an empty
\* b.matches.
CallBuildPipeline ==
    /\ InUseByCaller
    /\ builder' = AfterMatchStage(builder)
    /\ call' = MkCall("BuildPipeline", <<>>, "nil", builder, BuildPipeline(builder))
    /\ UNCHANGED <<ItemIDKey, SearchLenLimit, Coll, pc, req, last, Message, environ, setupEnv, env>>

\* Calls on one builder, in any order.
NextBuilder ==
    \/ \E sortDataList \in SortLists : CallSortedBy(sortDataList)
    \/ \E a \in MatchArgs : CallMatch(a)
    \/ CallSkip(1)
    \/ CallLimit(1)
    \/ CallBuildPipeline

SpecBuilder == Init /\ [][NextBuilder]_vars

-----------------------------------------------------------------------------
(* Package errors: the shared error value and BaseError.New *)

\* The messageFormat of ObjectIDNotFoundError.
ObjectIDNotFoundFormat ==
    <<"I", "t", "e", "m", " ", "w", "i", "t", "h", " ", "I", "D", " ", "%",
      "s", " ", "i", "s", " ", "n", "o", "t", " ", "e", "x", "i", "s", "t">>

\* fmt's %s of a []any: the elements between brackets, a space between them.
RECURSIVE JoinArgs(_)
JoinArgs(args) ==
    IF args = <<>> THEN <<>>
    ELSE IF Len(args) = 1 THEN args[1]
    ELSE args[1] \o <<" ">> \o JoinArgs(Tail(args))

\* fmt.Sprintf(format, args) with the slice args as its one operand: the
\* first %s of the format prints the whole slice.  (The formats of the
\* registered errors used here hold one verb.)
RECURSIVE Sprintf(_, _)
Sprintf(format, args) ==
    IF Len(format) < 2 THEN format
    ELSE IF format[1] = "%" /\ format[2] = "s"
    THEN <<"[">> \o JoinArgs(args) \o <<"]">> \o SubSeq(format, 3, Len(format))
    ELSE <<format[1]>> \o Sprintf(Tail(format), args)

\* The string BaseError.New assigns to e.Message: the format itself for no
\* arguments, the formatted text otherwise.
NewMessage(messageFormat, args) ==
    IF args.isNil THEN messageFormat ELSE Sprintf(messageFormat, args.elems)

\* The string a goroutine reads from the two words of a string variable:
\* len characters from data; characters past the data are unknown memory.
ReadString(m) == [i \in 1..m.len |-> IF i <= Len(m.data) THEN m.data[i] ELSE "?"]

\* The ids of the concurrent GetByID requests.
ErrorIDs == {<<"b">>, <<"a", "b">>}

\* GetByID, the store round trip: a stored item is returned; for
\* ErrNoDocuments the goroutine goes on to ObjectIDNotFoundError.New(itemID).
GetByIDFindOne(p, itemID) ==
    LET r == BaseModelGetByID(ItemIDKey, Coll, itemID) IN
    /\ pc[p] = "idle"
    /\ IF r.err = "nil"
       THEN /\ last' = MkLast(ItemIDKey, "GetByID", ZeroItem(ItemIDKey), itemID,
                              ZeroOpt(ItemIDKey), r.err, r.item, EmptyPage)
            /\ UNCHANGED <<pc, req>>
       ELSE /\ pc' = [pc EXCEPT ![p] = "new"]
            /\ req' = [req EXCEPT ![p] = itemID]
            /\ UNCHANGED last
    /\ UNCHANGED <<libVars, ItemIDKey, SearchLenLimit, Coll>>

\* New: e.Message = fmt.Sprintf(e.messageFormat, args), an unsynchronised
\* write of the two words of the string, in either order.  First word.
NewAssignFirstWord(p, word) ==
    LET text == NewMessage(ObjectIDNotFoundFormat, MkSlice(<<req[p]>>)) IN
    /\ pc[p] = "new"
    /\ Message' = IF word = "data" THEN [Message EXCEPT !.data = text]
                  ELSE [Message EXCEPT !.len = Len(text)]
    /\ pc' = [pc EXCEPT ![p] = word]
    /\ UNCHANGED <<ItemIDKey, SearchLenLimit, Coll, req, last, builder, call, environ,
                   setupEnv, env>>

\* New: the other word of e.Message.
NewAssignSecondWord(p) ==
    LET text == NewMessage(ObjectIDNotFoundFormat, MkSlice(<<req[p]>>)) IN
    /\ pc[p] \in {"data", "len"}
    /\ Message' = IF pc[p] = "len" THEN [Message EXCEPT !.data = text]
                  ELSE [Message EXCEPT !.len = Len(text)]
    /\ pc' = [pc EXCEPT ![p] = "return"]
    /\ UNCHANGED <<ItemIDKey, SearchLenLimit, Coll, req, last, builder, call, environ,
                   setupEnv, env>>

\* New: return *e, a copy of the shared value read without synchronisation;
\* GetByID returns it as its error.
NewReturn(p) ==
    /\ pc[p] = "return"
    /\ last' = [op |-> "GetByID", item |-> ZeroItem(ItemIDKey), id |-> req[p],
                opt |-> ZeroOpt(ItemIDKey), err |-> "ObjectIDNotFound",
                out |-> ZeroItem(ItemIDKey), page |-> EmptyPage, aggregates |-> 0,
                resp |-> NoResponse, message |-> ReadString(Message)]
    /\ pc' = [pc EXCEPT ![p] = "idle"]
    /\ req' = [req EXCEPT ![p] = ZeroItem(ItemIDKey)]
    /\ UNCHANGED <<libVars, ItemIDKey, SearchLenLimit, Coll>>

\* Concurrent GetByID requests, each statement of New one step.
NextErrors ==
    \/ \E item \in ConcItems(ItemIDKey) : Insert(item)
    \/ \E p \in Procs, itemID \in ErrorIDs : GetByIDFindOne(p, itemID)
    \/ \E p \in Procs, word \in {"data", "len"} : NewAssignFirstWord(p, word)
    \/ \E p \in Procs : NewAssignSecondWord(p)
    \/ \E p \in Procs : NewReturn(p)

SpecErrors == Init /\ [][NextErrors]_vars

-----------------------------------------------------------------------------
(* Package env: GetEnv *)

Digits == <<"0", "1", "2", "3", "4", "5", "6", "7", "8", "9">>

IsDigit(c) == \E i \in 1..Len(Digits) : Digits[i] = c

DigitValue(c) == (CHOOSE i \in 1..Len(Digits) : Digits[i] = c) - 1

\* The value of a string of digits.
RECURSIVE DecimalValue(_)
DecimalValue(s) ==
    IF s = <<>> THEN 0
    ELSE 10 * DecimalValue(SubSeq(s, 1, Len(s) - 1)) + DigitValue(s[Len(s)])

\* strconv.Atoi: an optional sign and at least one digit, nothing else; any
\* other string is a syntax error.  (The strings of the environments below
\* stay far from the range error.)
Atoi(s) ==
    LET signed == s # <<>> /\ s[1] \in {"+", "-"}
        digits == IF signed THEN Tail(s) ELSE s IN
    IF digits = <<>> \/ \E i \in 1..Len(digits) : ~IsDigit(digits[i])
    THEN [err |-> "ErrSyntax", n |-> 0]
    ELSE [err |-> "nil",
          n |-> IF signed /\ s[1] = "-" THEN 0 - DecimalValue(digits)
                ELSE DecimalValue(digits)]

\* The body of `if !setupEnv` in GetEnv: the ports are parsed, MONGODB_PORT
\* first; a port that does not parse ends the call with the error of Atoi
\* and env is not assigned.
LoadEnv(environment, current) ==
    LET parsedMongoDBPort == Atoi(environment.MONGODB_PORT)
        parsedServerPort == Atoi(environment.SERVER_PORT) IN
    IF parsedMongoDBPort.err # "nil"
    THEN [err |-> parsedMongoDBPort.err, env |-> current]
    ELSE IF parsedServerPort.err # "nil"
    THEN [err |-> parsedServerPort.err, env |-> current]
    ELSE [err |-> "nil",
          env |-> [Server |-> [Port |-> parsedServerPort.n],
                   MongoDB |-> [Host |-> environment.MONGODB_HOST,
                                Port |-> parsedMongoDBPort.n,
                                User |-> environment.MONGODB_USER,
                                Password |-> environment.MONGODB_PASSWORD,
                                DB |-> environment.MONGODB_NAME]]]

\* The record of a GetEnv call: its error, the configuration behind the
\* returned pointer (isNil when the pointer is nil), env before the call,
\* whether an earlier GetEnv had succeeded, and the configuration the first
\* successful GetEnv returned.
MkEnvCall(err, out, prev, loaded, first) ==
    [op |-> "GetEnv", err |-> err, isNil |-> err # "nil", out |-> out,
     prev |-> prev, loaded |-> loaded, first |-> first]

\* A GetEnv has succeeded before.
Loaded == call.op = "GetEnv" /\ (call.loaded \/ call.err = "nil")

\* env.GetEnv()
GetEnv ==
    LET r == IF ~setupEnv THEN LoadEnv(environ, env) ELSE [err |-> "nil", env |-> env] IN
    /\ env' = r.env
    /\ call' = MkEnvCall(r.err, IF r.err = "nil" THEN r.env ELSE ZeroEnv, env, Loaded,
                         IF Loaded THEN call.first ELSE r.env)
    /\ UNCHANGED <<ItemIDKey, SearchLenLimit, Coll, pc, req, last, builder, Message,
                   environ, setupEnv>>

\* The variables of the environment that are changed, and their new values.
EnvValues ==
    [MONGODB_PORT |-> {<<"1">>, <<"x">>, <<"1", "2">>},
     SERVER_PORT |-> {<<"2">>, <<>>, <<"-", "1">>},
     MONGODB_HOST |-> {sA, sB}]

\* os.Setenv(name, value) by the process or its tests.
Setenv(name, value) ==
    /\ environ[name] # value
    /\ environ' = [environ EXCEPT ![name] = value]
    /\ UNCHANGED <<ItemIDKey, SearchLenLimit, Coll, pc, req, last, builder, call, Message,
                   setupEnv, env>>

\* GetEnv calls in a process whose environment changes between them.
NextEnv ==
    \/ GetEnv
    \/ \E name \in DOMAIN EnvValues : \E value \in EnvValues[name] : Setenv(name, value)

SpecEnv == Init /\ [][NextEnv]_vars

-----------------------------------------------------------------------------
(* HTTP layer: errors.BaseError, CRUDResponse, the gin context, writeErrorJSON *)

StatusOK == 200
StatusCreated == 201
StatusNoContent == 204
StatusBadRequest == 400
StatusNotFound == 404
StatusInternalServerError == 500

ObjectIDNotFoundErrorCode == 200002

\* The codes of the registered errors, by name.
BaseErrorCodes ==
    [UnknownError |-> 100001,
     CurrentPageInvalid |-> 200001,
     ObjectIDNotFound |-> ObjectIDNotFoundErrorCode,
     DuplicatedObjectID |-> 200003,
     MatchTypeInvalid |-> 200004,
     SortListInvalid |-> 200005,
     MatchKeyDuplicated |-> 200006,
     MatchValueInvalid |-> 200007,
     DataAlreadyInUsed |-> 200008,
     DataValidationFailed |-> 200009]

\* The zero value of errors.BaseError.
ZeroBaseError == [Code |-> 0, Name |-> ""]

\* The BaseError that New() of the registered error returns.
MkBaseError(name) == [Code |-> BaseErrorCodes[name], Name |-> name]

\* BaseError.IsNil(): reflect.ValueOf(e).IsZero()
BaseErrorIsNil(e) == e = ZeroBaseError

\* TryAssertError: err.(BaseError).  The resource models return a BaseError
\* for the registered errors; every other error (errors.New, the errors of
\* the store, of the JSON binding) is not one.
TryAssertError(err) ==
    IF err \in DOMAIN BaseErrorCodes
    THEN [ok |-> TRUE, error |-> MkBaseError(err)]
    ELSE [ok |-> FALSE, error |-> ZeroBaseError]

\* CRUDResponse{Result, Error}; a nil Result is "null".
MkResponse(result, error) == [Result |-> result, Error |-> error]

\* OKResponse
OKResponse == MkResponse([status |-> "OK"], ZeroBaseError)

\* CRUDResponse.MarshalJSON that writes both keys (faulty variant).
MarshalJSONBoth(resp) == [result |-> resp.Result, error |-> resp.Error]

\* CRUDResponse.MarshalJSON: the error alone, or the result alone when the
\* error is the zero value.
MarshalJSON(resp) ==
    IF BaseErrorIsNil(resp.Error)
    THEN [result |-> resp.Result]
    ELSE [error |-> resp.Error]

\* The gin context of a request before anything is written.
NewContext == [written |-> FALSE, status |-> StatusOK, body |-> <<>>]

\* A response of this status may carry a body (gin: bodyAllowedForStatus).
BodyAllowedForStatus(code) == ~(code \in 100..199 \/ code = StatusNoContent \/ code = 304)

\* ctx.JSON(code, obj): the status is set unless the header is already
\* written; the body is written when the status given allows one.
JSON(ctx, code, obj) ==
    [written |-> TRUE,
     status |-> IF ctx.written THEN ctx.status ELSE code,
     body |-> IF BodyAllowedForStatus(code) THEN Append(ctx.body, obj) ELSE ctx.body]

\* A binding error that leaves the header unwritten (faulty variant).
AbortWithErrorUnwritten(ctx, code) == ctx

\* ctx.BindJSON on a body that cannot be bound: AbortWithError(400, err)
\* writes the header with status 400 at once.
AbortWithError(ctx, code) == [ctx EXCEPT !.written = TRUE, !.status = code]

\* writeErrorJSON: 500 and UnknownError for an error that is no BaseError,
\* 404 for ObjectIDNotFound, 400 for every other BaseError.
writeErrorJSON(ctx, err) ==
    LET a == TryAssertError(err) IN
    IF ~a.ok
    THEN JSON(ctx, StatusInternalServerError,
              MarshalJSON(MkResponse("null", MkBaseError("UnknownError"))))
    ELSE JSON(ctx,
              IF a.error.Code = ObjectIDNotFoundErrorCode THEN StatusNotFound ELSE StatusBadRequest,
              MarshalJSON(MkResponse("null", a.error)))

-----------------------------------------------------------------------------
(* HTTP layer: request bodies, the CRUD API of a resource, the routes *)

\* A request without a body, and one whose body is the JSON object given.
NoBody == [present |-> FALSE, json |-> <<>>]

MkBody(json) == [present |-> TRUE, json |-> json]

\* The JSON object of an item in which empty strings and nil categories are
\* left out.
ItemJSON(idKey, item) ==
    LET keys == {k \in DOMAIN item :
                    IF k = "categories" THEN ~item[k].isNil ELSE ~IsEmptyString(item[k])} IN
    [k \in keys |-> item[k]]

\* ctx.BindJSON(&item): EOF without a body; a key the object lacks leaves
\* the zero value of its field.
BindItem(idKey, body) ==
    IF ~body.present THEN [err |-> "EOF", item |-> ZeroItem(idKey)]
    ELSE [err |-> "nil",
          item |-> [k \in DOMAIN ZeroItem(idKey) |->
                      IF k \in DOMAIN body.json THEN body.json[k] ELSE ZeroItem(idKey)[k]]]

\* The keys of a JSON search object that hold a match option.
MatchKeysJSON(idKey) ==
    IF IsBooks(idKey) THEN {"title", "author"} ELSE {"username", "account_name", "email"}

\* MatchType is a uint8: a match_type outside 0..255 cannot be decoded.
MatchTypeDecodes(n) == n \in 0..MaxMatchType

\* The Go field of a JSON key of the search options.
OptField(key) ==
    CASE key = "current_page" -> "CurrentPage"
      [] key = "title" -> "Title"
      [] key = "author" -> "Author"
      [] key = "categories" -> "Categories"
      [] key = "user_id" -> "UserID"
      [] key = "username" -> "Username"
      [] key = "account_name" -> "AccountName"
      [] key = "email" -> "Email"

\* ctx.BindJSON(&opt): EOF without a body, an unmarshal error for a
\* match_type that is no uint8; a key the object lacks leaves the zero value.
BindOpt(idKey, body) ==
    IF ~body.present THEN [err |-> "EOF", opt |-> ZeroOpt(idKey)]
    ELSE IF \E k \in MatchKeysJSON(idKey) \cap DOMAIN body.json :
               ~MatchTypeDecodes(body.json[k].match_type)
    THEN [err |-> "UnmarshalTypeError", opt |-> ZeroOpt(idKey)]
    ELSE LET set == {OptField(k) : k \in DOMAIN body.json}
             val(f) == LET k == CHOOSE k \in DOMAIN body.json : OptField(k) = f
                           v == body.json[k] IN
                       IF k \in MatchKeysJSON(idKey) THEN MkMatch(v.match_type, v.value) ELSE v IN
         [err |-> "nil",
          opt |-> [f \in DOMAIN ZeroOpt(idKey) |->
                     IF f \in set THEN val(f) ELSE ZeroOpt(idKey)[f]]]

\* The context after BindJSON returned err.
AfterBind(ctx, err) == IF err # "nil" THEN AbortWithError(ctx, StatusBadRequest) ELSE ctx

\* BooksCrudAPI.Insert / UsersCrudAPI.Insert
APIInsert(idKey, coll, ctx, body) ==
    LET b == BindItem(idKey, body) IN
    IF b.err # "nil"
    THEN [err |-> b.err, coll |-> coll, ctx |-> AfterBind(ctx, b.err), item |-> b.item]
    ELSE LET r == ModelInsert(idKey, coll, b.item) IN
         [err |-> r.err, coll |-> r.coll, ctx |-> ctx, item |-> b.item]

\* BooksCrudAPI.ReadOne / UsersCrudAPI.ReadOne
APIReadOne(idKey, coll, itemID) == BaseModelGetByID(idKey, coll, itemID)

\* BooksCrudAPI.Read / UsersCrudAPI.Read: the possible outcomes.
APIRead(idKey, limit, coll, ctx, body) ==
    LET b == BindOpt(idKey, body) IN
    IF b.err # "nil"
    THEN {[err |-> b.err, page |-> EmptyPage, aggregates |-> 0,
           ctx |-> AfterBind(ctx, b.err), opt |-> b.opt, searched |-> FALSE]}
    ELSE {[err |-> r.err, page |-> r.page, aggregates |-> r.aggregates,
           ctx |-> ctx, opt |-> b.opt, searched |-> TRUE] :
          r \in ModelSearch(idKey, limit, coll, b.opt)}

\* BooksCrudAPI.Update / UsersCrudAPI.Update
APIUpdate(idKey, coll, ctx, body) ==
    LET b == BindItem(idKey, body) IN
    IF b.err # "nil"
    THEN [err |-> b.err, coll |-> coll, ctx |-> AfterBind(ctx, b.err), item |-> b.item]
    ELSE LET r == BaseModelUpdate(idKey, coll, b.item) IN
         [err |-> r.err, coll |-> r.coll, ctx |-> ctx, item |-> b.item]

\* BooksCrudAPI.Delete / UsersCrudAPI.Delete: the id is the one of the bound item.
APIDelete(idKey, coll, ctx, body) ==
    LET b == BindItem(idKey, body) IN
    IF b.err # "nil"
    THEN [err |-> b.err, coll |-> coll, ctx |-> AfterBind(ctx, b.err), item |-> b.item]
    ELSE LET r == BaseModelDelete(idKey, coll, GetID(idKey, b.item)) IN
         [err |-> r.err, coll |-> r.coll, ctx |-> ctx, item |-> b.item]

\* The response of a route: writeErrorJSON for an error, otherwise
\* ctx.JSON(code, obj).
Respond(ctx, err, code, obj) ==
    IF err # "nil" THEN writeErrorJSON(ctx, err) ELSE JSON(ctx, code, obj)

\* Items of the HTTP requests: complete items, items that fail the
\* validation of Insert or of the store, items with some fields only, an id
\* no request stores.
HttpItems(idKey) ==
    IF IsBooks(idKey)
    THEN {MkBook(sA, sA, sA, sA, MkSlice(<<sA>>)),
          MkBook(sB, sB, sA, sA, MkSlice(<<>>)),
          MkBook(sB, <<>>, sA, sA, MkSlice(<<sA>>)),
          MkBook(sB, sA, sA, sA, NilSlice),
          MkBook(sB, sA, sA, sA, MkSlice(<<sA, sA>>)),
          MkBook(sA, <<>>, sB, <<>>, MkSlice(<<sB>>)),
          MkBook(sA, <<>>, sB, <<>>, NilSlice),
          MkBook(sC, <<>>, sB, <<>>, MkSlice(<<sB>>)),
          MkBook(sA, <<>>, <<>>, <<>>, NilSlice)}
    ELSE {MkUser(sA, sA, sA, sA, sA),
          MkUser(sB, sB, sA, sB, sMail),
          MkUser(sB, <<>>, sA, sB, sMail),
          MkUser(sB, sB, sA, sB, <<>>),
          MkUser(sB, sB, sA, sA, sMail),
          MkUser(sB, <<>>, <<>>, sA, <<>>),
          MkUser(sA, <<>>, sB, <<>>, <<>>),
          MkUser(sC, <<>>, sB, <<>>, <<>>),
          MkUser(sC, <<>>, <<>>, <<>>, <<>>),
          MkUser(sA, <<>>, <<>>, <<>>, <<>>)}

\* Bodies of the item requests: none, or the JSON object of an item.
ItemBodies(idKey) == {NoBody} \cup {MkBody(ItemJSON(idKey, item)) : item \in HttpItems(idKey)}

\* A JSON match option.
MatchJSON(matchType, value) == [match_type |-> matchType, value |-> value]

\* Bodies of the search requests: none; a page alone; a match option of a
\* type that is valid, that no constant names, or that is no uint8.
SearchBodies(idKey) ==
    LET key == IF IsBooks(idKey) THEN "title" ELSE "username" IN
    {NoBody}
    \cup {MkBody([k \in {"current_page"} |-> page]) : page \in 0..2}
    \cup {MkBody([k \in {"current_page", key} |->
                    IF k = "current_page" THEN 1 ELSE MatchJSON(t, sA)]) :
          t \in {-1, PartialMatchType, ContainsInMatchType + 1, MaxMatchType + 1}}
    \cup {MkBody([k \in {key} |-> MatchJSON(-1, <<>>)])}

\* POST "": Insert, answered with 201 and OKResponse.
PostItem(body) ==
    LET r == APIInsert(ItemIDKey, Coll, NewContext, body) IN
    /\ Coll' = r.coll
    /\ last' = [MkLast(ItemIDKey, "POST", r.item, <<>>, ZeroOpt(ItemIDKey), r.err,
                       ZeroItem(ItemIDKey), EmptyPage)
                EXCEPT !.resp = Respond(r.ctx, r.err, StatusCreated, MarshalJSON(OKResponse))]
    /\ UNCHANGED <<libVars, ItemIDKey, SearchLenLimit, pc, req>>

\* GET ":id": ReadOne, answered with 200 and the item.
GetItem(itemID) ==
    LET r == APIReadOne(ItemIDKey, Coll, itemID) IN
    /\ last' = [MkLast(ItemIDKey, "GET:id", ZeroItem(ItemIDKey), itemID, ZeroOpt(ItemIDKey),
                       r.err, r.item, EmptyPage)
                EXCEPT !.resp = Respond(NewContext, r.err, StatusOK,
                                        MarshalJSON(MkResponse(r.item, ZeroBaseError)))]
    /\ UNCHANGED <<libVars, ItemIDKey, SearchLenLimit, Coll, pc, req>>

\* GET "": Read, answered with 200 and the page.
GetItems(body) ==
    /\ \E r \in APIRead(ItemIDKey, SearchLenLimit, Coll, NewContext, body) :
          last' = [MkLast(ItemIDKey, "GET", ZeroItem(ItemIDKey), <<>>, r.opt, r.err,
                          ZeroItem(ItemIDKey), r.page)
                   EXCEPT !.aggregates = r.aggregates,
                          !.resp = Respond(r.ctx, r.err, StatusOK,
                                           MarshalJSON(MkResponse(r.page, ZeroBaseError)))]
    /\ UNCHANGED <<libVars, ItemIDKey, SearchLenLimit, Coll, pc, req>>

\* PUT "": Update, answered with 204 and no body.
PutItem(body) ==
    LET r == APIUpdate(ItemIDKey, Coll, NewContext, body) IN
    /\ Coll' = r.coll
    /\ last' = [MkLast(ItemIDKey, "PUT", r.item, <<>>, ZeroOpt(ItemIDKey), r.err,
                       ZeroItem(ItemIDKey), EmptyPage)
                EXCEPT !.resp = Respond(r.ctx, r.err, StatusNoContent, "null")]
    /\ UNCHANGED <<libVars, ItemIDKey, SearchLenLimit, pc, req>>

\* DELETE "": Delete, answered with 204 and no body.
DeleteItem(body) ==
    LET r == APIDelete(ItemIDKey, Coll, NewContext, body) IN
    /\ Coll' = r.coll
    /\ last' = [MkLast(ItemIDKey, "DELETE", r.item, GetID(ItemIDKey, r.item),
                       ZeroOpt(ItemIDKey), r.err, ZeroItem(ItemIDKey), EmptyPage)
                EXCEPT !.resp = Respond(r.ctx, r.err, StatusNoContent, "null")]
    /\ UNCHANGED <<libVars, ItemIDKey, SearchLenLimit, pc, req>>

\* HTTP requests served one at a time.
NextHTTP ==
    \/ \E body \in ItemBodies(ItemIDKey) : PostItem(body)
    \/ \E itemID \in ItemIDs \ {<<>>} : GetItem(itemID)
    \/ \E body \in SearchBodies(ItemIDKey) : GetItems(body)
    \/ \E body \in ItemBodies(ItemIDKey) : PutItem(body)
    \/ \E body \in ItemBodies(ItemIDKey) : DeleteItem(body)

SpecHTTP == Init /\ [][NextHTTP]_vars

-----------------------------------------------------------------------------
(* Properties of Insert, GetByID, Update and Delete *)

\* The stored documents as items.
StoredItems == [i \in 1..Len(Coll) |-> Decode(ItemIDKey, Coll[i])]

\* The item passes the field validation of its resource.
PassesValidation(item) == IF IsBooks(ItemIDKey) THEN BookValid(item) ELSE UserValid(item)

\* The fields that must not repeat among the records of a resource: the
\* primary key, and for users the username, account name and email.
UniqueFields == IF IsBooks(ItemIDKey) THEN {"book_id"} ELSE {"user_id", "username", "account_name", "email"}

\* The item shares the value of a unique field with a stored record.
Collides(item) ==
    \E i \in 1..Len(Coll), k \in UniqueFields : StoredItems[i][k] = item[k]

\* A record with this primary key is stored.
IsStored(itemID) == \E i \in 1..Len(Coll) : StoredItems[i][ItemIDKey] = itemID

\* The step is a GetByID of the id just inserted, and returns the inserted item.
GetAfterInsertReturnsItem ==
    (/\ last.op = "Insert" /\ last.err = "nil"
     /\ last'.op = "GetByID" /\ last'.id = GetID(ItemIDKey, last.item))
    => (last'.err = "nil" /\ last'.out = last.item)

\* What GetByID returns for a stored id is changed by no step other than an
\* Update or a Delete of that id.
OtherStepsKeepRecord ==
    \A itemID \in ItemIDs :
        (/\ IsStored(itemID)
         /\ ~(last'.op = "Update" /\ GetID(ItemIDKey, last'.item) = itemID)
         /\ ~(last'.op = "Delete" /\ last'.id = itemID))
        => BaseModelGetByID(ItemIDKey, Coll', itemID) = BaseModelGetByID(ItemIDKey, Coll, itemID)

\* C1: a GetByID that follows a successful Insert of the same id returns a
\* record equal field for field to the inserted one, for books and for users;
\* and the record GetByID returns for an id is changed by no request other
\* than an Update or a Delete of that id, so the equality lasts until one.
InsertThenGetByIDReturnsItem ==
    [][GetAfterInsertReturnsItem /\ OtherStepsKeepRecord]_vars

\* A GetByID returned a complete record with a category (book) or email (user).
WitnessGetByIDReturnsItem ==
    /\ last.op = "GetByID" /\ last.err = "nil"
    /\ PassesValidation(last.out)
    /\ \/ ~IsBooks(ItemIDKey) /\ last.out["email"] = sMail
       \/ IsBooks(ItemIDKey) /\ last.out["categories"] = MkSlice(<<sA>>)

\* C2 as stated: with requests served one at a time, an Insert whose item
\* shares its book_id (books) or its user_id, username, account_name or
\* email (users) with a stored record fails with DataAlreadyInUsed and
\* leaves the store unchanged.
CollidingInsertFailsInUse ==
    [][(last'.op = "Insert" /\ Collides(last'.item))
        => (last'.err = "DataAlreadyInUsed" /\ Coll' = Coll)]_vars

\* C2 amended: an Insert whose item passes the field validation and shares
\* a unique field with a stored record fails with DataAlreadyInUsed and
\* leaves the store unchanged.
ValidCollidingInsertFailsInUse ==
    [][(last'.op = "Insert" /\ PassesValidation(last'.item) /\ Collides(last'.item))
        => (last'.err = "DataAlreadyInUsed" /\ Coll' = Coll)]_vars

\* An Insert failed with DataAlreadyInUsed on a record that collides with a
\* stored one in a unique field but not in the primary key.
WitnessCollidingInsert ==
    /\ last.op = "Insert" /\ last.err = "DataAlreadyInUsed"
    /\ Collides(last.item)
    /\ ~IsStored(GetID(ItemIDKey, last.item))

\* At most one stored record carries a given primary key.
PrimaryKeyUnique ==
    \A i, j \in 1..Len(Coll) :
        StoredItems[i][ItemIDKey] = StoredItems[j][ItemIDKey] => i = j

\* The step is the InsertOne round trip of a concurrent Insert.
IsInsertEnd == \E p \in Procs : pc[p] = "insert" /\ pc'[p] = "idle"

\* The item whose InsertOne round trip the step is.
InsertEndItem == req[CHOOSE p \in Procs : pc[p] = "insert" /\ pc'[p] = "idle"]

UserFieldsUnique ==
    IsBooks(ItemIDKey) \/
    \A i, j \in 1..Len(Coll), k \in {"username", "account_name", "email"} :
        StoredItems[i][k] = StoredItems[j][k] => i = j

-----------------------------------------------------------------------------
(* Properties of Search *)

\* ceil(n / d)
Ceil(n, d) == (n + d - 1) \div d

\* s contains v, ignoring case.
ContainsFold(s, v) ==
    \E i \in 1..(Len(s) - Len(v) + 1) : FoldStr(SubSeq(s, i, i + Len(v) - 1)) = FoldStr(v)

\* s starts with v, ignoring case.
StartsWithFold(s, v) == Len(v) <= Len(s) /\ FoldStr(SubSeq(s, 1, Len(v))) = FoldStr(v)

\* s ends with v, ignoring case.
EndsWithFold(s, v) ==
    Len(v) <= Len(s) /\ FoldStr(SubSeq(s, Len(s) - Len(v) + 1, Len(s))) = FoldStr(v)

\* A match option of a string field is absent or of a kind a string can have.
OptionValid(m) == IsNil(m) \/ m.MatchType \in EqualMatchType..EndWithMatchType

\* The string satisfies the match option.
Satisfies(s, m) ==
    \/ IsNil(m)
    \/ m.MatchType = EqualMatchType /\ s = m.Value
    \/ m.MatchType = PartialMatchType /\ ContainsFold(s, m.Value)
    \/ m.MatchType = StartWithMatchType /\ StartsWithFold(s, m.Value)
    \/ m.MatchType = EndWithMatchType /\ EndsWithFold(s, m.Value)

\* Every match option of the search options is absent or valid.
OptionsValid(opt) ==
    IF IsBooks(ItemIDKey)
    THEN OptionValid(opt.Title) /\ OptionValid(opt.Author)
    ELSE OptionValid(opt.Username) /\ OptionValid(opt.AccountName) /\ OptionValid(opt.Email)

\* The item satisfies the search options: every option that is present.
ItemMatches(item, opt) ==
    IF IsBooks(ItemIDKey)
    THEN /\ Satisfies(item["title"], opt.Title)
         /\ Satisfies(item["author"], opt.Author)
         /\ \/ opt.Categories.isNil
            \/ \E i \in 1..SliceLen(item["categories"]), j \in 1..SliceLen(opt.Categories) :
                  item["categories"].elems[i] = opt.Categories.elems[j]
    ELSE /\ opt.UserID = <<>> \/ item["user_id"] = opt.UserID
         /\ Satisfies(item["username"], opt.Username)
         /\ Satisfies(item["account_name"], opt.AccountName)
         /\ Satisfies(item["email"], opt.Email)

\* The stored records that satisfy the search options.
Matching(opt) == {StoredItems[i] : i \in {j \in 1..Len(Coll) : ItemMatches(StoredItems[j], opt)}}

\* The number of stored records that satisfy the search options.
Total(opt) == Cardinality({j \in 1..Len(Coll) : ItemMatches(StoredItems[j], opt)})

\* a comes before b in the ascending sort order of the resource: title then
\* author for books, user_id for users.
SortsBefore(a, b) ==
    IF IsBooks(ItemIDKey)
    THEN \/ StrCmp(a["title"], b["title"]) < 0
         \/ StrCmp(a["title"], b["title"]) = 0 /\ StrCmp(a["author"], b["author"]) < 0
    ELSE StrCmp(a["user_id"], b["user_id"]) < 0

\* The matching records have pairwise distinct sort keys.
SortKeysDistinct(opt) ==
    /\ Cardinality(Matching(opt)) = Total(opt)
    /\ \A a, b \in Matching(opt) : a # b => (SortsBefore(a, b) \/ SortsBefore(b, a))

\* The matching record at position k of the ascending sort order.
AtPosition(opt, k) ==
    CHOOSE a \in Matching(opt) : Cardinality({b \in Matching(opt) : SortsBefore(b, a)}) = k - 1

\* The latest call is a Search that succeeded.
SearchSucceeded == last.op = "Search" /\ last.err = "nil"

\* C5: a Search with currentPage < 1 fails with CurrentPageInvalid and an
\* empty result, whatever its match options (absent, valid or invalid).
SearchPageBelowOneFails ==
    (last.op = "Search" /\ last.opt.CurrentPage < 1)
    => (last.err = "CurrentPageInvalid" /\ last.page = EmptyPage)

\* C6: a Search with valid options for a page past the last one
\* (currentPage > ceil(total / pageSize), total = 0 included) succeeds with
\* no data, page = currentPage and totalPages = ceil(total / pageSize).
SearchPastLastPageIsEmpty ==
    (/\ last.op = "Search" /\ OptionsValid(last.opt)
     /\ last.opt.CurrentPage >= 1
     /\ last.opt.CurrentPage > Ceil(Total(last.opt), SearchLenLimit))
    => (/\ last.err = "nil"
        /\ SliceLen(last.page.Data) = 0
        /\ last.page.Page = last.opt.CurrentPage
        /\ last.page.TotalPages = Ceil(Total(last.opt), SearchLenLimit))

\* A Search past the last page of a result with matches succeeded.
WitnessSearchPastLastPage ==
    /\ SearchSucceeded
    /\ Total(last.opt) = 3 /\ SearchLenLimit = 2
    /\ last.opt.CurrentPage = 3
    /\ SliceLen(last.page.Data) = 0

\* C7: every successful Search has totalPages = ceil(count / pageSize), and
\* the page size is at least 1.
SearchTotalPagesIsCeil ==
    SearchSucceeded
    => (/\ SearchLenLimit >= 1
        /\ last.page.TotalPages = Ceil(last.page.Count, SearchLenLimit))

\* A successful Search counted pageSize + 1 matches, pageSize above 1.
WitnessSearchTotalPages ==
    /\ SearchSucceeded
    /\ SearchLenLimit > 1
    /\ last.page.Count = SearchLenLimit + 1
    /\ last.page.TotalPages = 2

\* The positions of the sort order that page p holds.
FirstOfPage(p) == (p - 1) * SearchLenLimit + 1

LastOfPage(p, total) == IF p * SearchLenLimit < total THEN p * SearchLenLimit ELSE total

\* C8: when the matching records have pairwise distinct sort keys, a
\* successful Search for page p returns exactly the matching records at
\* positions (p-1)*pageSize+1 .. min(p*pageSize, total) of the ascending
\* sort order, in that order; so it returns at most pageSize records, and
\* the pages 1..totalPages partition the matching records.
SearchPageIsSliceOfSortOrder ==
    (SearchSucceeded /\ SortKeysDistinct(last.opt))
    => LET p == last.opt.CurrentPage
           first == FirstOfPage(p)
           n == LastOfPage(p, Total(last.opt)) - first + 1 IN
       /\ SliceLen(last.page.Data) = IF n > 0 THEN n ELSE 0
       /\ SliceLen(last.page.Data) <= SearchLenLimit
       /\ \A k \in 1..SliceLen(last.page.Data) :
             last.page.Data.elems[k] = AtPosition(last.opt, first + k - 1)

\* A successful Search returned the last, partly filled page of three
\* matching records that the natural order of the store does not sort.
WitnessSearchSecondPage ==
    /\ SearchSucceeded /\ SortKeysDistinct(last.opt)
    /\ Total(last.opt) = 3 /\ SearchLenLimit = 2
    /\ last.opt.CurrentPage = 2
    /\ SliceLen(last.page.Data) = 1
    /\ SortsBefore(StoredItems[Len(Coll)], StoredItems[1])

\* C9: in every successful Search the count is the number of stored records
\* that satisfy the match options, over all pages.
SearchCountIsTotal ==
    SearchSucceeded => last.page.Count = Total(last.opt)

\* A successful Search with a match option returned a page shorter than its count.
WitnessSearchCount ==
    /\ SearchSucceeded
    /\ last.page.Count = 2 /\ Len(Coll) = 3
    /\ SliceLen(last.page.Data) = 1

\* C10: an Update whose item has the primary key of no stored record fails
\* with ObjectIDNotFound and leaves every stored record unchanged.
UpdateOfMissingFailsNotFound ==
    [][(last'.op = "Update" /\ ~IsStored(GetID(ItemIDKey, last'.item)))
        => (last'.err = "ObjectIDNotFound" /\ Coll' = Coll)]_vars

-----------------------------------------------------------------------------
(* Properties of Delete and of partial Update *)

\* A document of coll carries this primary key.
IsStoredIn(coll, itemID) ==
    \E i \in 1..Len(coll) : Decode(ItemIDKey, coll[i])[ItemIDKey] = itemID

\* The step is a successful Delete, and its id is stored no longer.
DeleteRemovesRecord ==
    (last'.op = "Delete" /\ last'.err = "nil") => ~IsStoredIn(Coll', last'.id)

\* An id that is not stored stays so over every step but a successful Insert of it.
OnlyInsertStoresID ==
    \A itemID \in ItemIDs :
        (/\ ~IsStored(itemID)
         /\ ~(last'.op = "Insert" /\ last'.err = "nil" /\ GetID(ItemIDKey, last'.item) = itemID))
        => ~IsStoredIn(Coll', itemID)

\* A GetByID or a Delete of an id that is not stored fails with
\* ObjectIDNotFound, and the Delete leaves the store as it is.
MissingIDNotFound ==
    /\ (last'.op = "GetByID" /\ ~IsStored(last'.id))
        => (last'.err = "ObjectIDNotFound" /\ last'.out = ZeroItem(ItemIDKey))
    /\ (last'.op = "Delete" /\ ~IsStored(last'.id))
        => (last'.err = "ObjectIDNotFound" /\ Coll' = Coll)

\* C11: after a successful Delete(id) the id is not stored, it stays so
\* until a successful Insert of that id, and meanwhile GetByID(id) and a
\* second Delete(id) fail with ObjectIDNotFound.
DeletedIDNotFoundUntilInsert ==
    [][DeleteRemovesRecord /\ OnlyInsertStoresID /\ MissingIDNotFound]_vars

\* A Delete failed with ObjectIDNotFound on an id that the requests store
\* and delete, while another record is stored.
WitnessDeleteOfDeleted ==
    /\ last.op = "Delete" /\ last.err = "ObjectIDNotFound"
    /\ last.id = sA
    /\ IsStored(sB)

\* The non-key fields of an item.
NonKeyFields ==
    IF IsBooks(ItemIDKey) THEN {"title", "author", "description", "categories"}
    ELSE {"username", "password", "account_name", "email"}

\* The item supplies the field: a string that is not empty, categories that are not nil.
Supplies(item, k) == IF k = "categories" THEN ~item[k].isNil ELSE item[k] # <<>>

\* The stored record merged with the supplied fields of the item.
Merged(old, item) ==
    [k \in DOMAIN old |-> IF k # ItemIDKey /\ Supplies(item, k) THEN item[k] ELSE old[k]]

\* The values the item supplies are acceptable one by one: categories
\* without a repeated element, and no unique field of another record.
SuppliedAcceptable(item) ==
    /\ IsBooks(ItemIDKey) => UniqueItems(item["categories"].elems)
    /\ \A i \in 1..Len(Coll), k \in UniqueFields \ {ItemIDKey} :
          StoredItems[i][ItemIDKey] # item[ItemIDKey] => StoredItems[i][k] # item[k]

\* C12: an Update whose item has the primary key of a stored record and
\* supplies some of the non-key fields (the others empty or nil) succeeds
\* and stores that record with exactly the supplied fields replaced, a
\* book's categories kept when the supplied categories are nil; every other
\* record is unchanged.
PartialUpdateMergesFields ==
    [][(/\ last'.op = "Update"
        /\ IsStored(GetID(ItemIDKey, last'.item))
        /\ \E k \in NonKeyFields : Supplies(last'.item, k)
        /\ SuppliedAcceptable(last'.item))
       => (/\ last'.err = "nil"
           /\ Len(Coll') = Len(Coll)
           /\ \A i \in 1..Len(Coll) :
                 Decode(ItemIDKey, Coll'[i]) =
                    IF StoredItems[i][ItemIDKey] = GetID(ItemIDKey, last'.item)
                    THEN Merged(StoredItems[i], last'.item)
                    ELSE StoredItems[i])]_vars

-----------------------------------------------------------------------------
(* Properties of the field validation of Insert *)

\* C13: an Insert of a book whose book_id, title, author or description is
\* empty, or whose categories is nil, fails with DataValidationFailed and
\* leaves the store unchanged.
InvalidBookInsertFailsValidation ==
    [][(/\ IsBooks(ItemIDKey) /\ last'.op = "Insert"
        /\ \/ \E k \in {"book_id", "title", "author", "description"} : last'.item[k] = <<>>
           \/ last'.item["categories"].isNil)
       => (last'.err = "DataValidationFailed" /\ Coll' = Coll)]_vars

\* An Insert of a book complete but for its nil categories, with the id of
\* no stored book, failed with DataValidationFailed while a book is stored.
WitnessInvalidBookInsert ==
    /\ IsBooks(ItemIDKey)
    /\ last.op = "Insert" /\ last.err = "DataValidationFailed"
    /\ last.item["categories"].isNil
    /\ \A k \in BookStringKeys : last.item[k] # <<>>
    /\ Len(Coll) = 1 /\ ~IsStored(last.item["book_id"])

-----------------------------------------------------------------------------
(* Properties of the HTTP layer *)

\* The request of the step reached the model: its body was bound.
Bound(l) == l.err \notin {"EOF", "UnmarshalTypeError"}

\* The response carries the error `name` alone, with the status `code`.
AnswersError(l, code, name) ==
    /\ l.resp.status = code
    /\ l.resp.body = <<[error |-> MkBaseError(name)]>>

\* C14: an Insert of a user with an empty user_id, username, password,
\* account_name or email fails with DataValidationFailed, is answered over
\* HTTP with status 400 and that error, and leaves the store unchanged.
EmptyUserFieldFailsValidation ==
    [][(/\ ~IsBooks(ItemIDKey)
        /\ last'.op = "POST"
        /\ Bound(last')
        /\ \E k \in UserKeys : IsEmptyString(last'.item[k]))
       => (/\ last'.err = "DataValidationFailed"
           /\ AnswersError(last', StatusBadRequest, "DataValidationFailed")
           /\ Coll' = Coll)]_vars

\* The string has the form of an e-mail address: one "@" with text on both
\* sides of it.
ValidEmailFormat(s) ==
    /\ Cardinality({i \in 1..Len(s) : s[i] = "@"}) = 1
    /\ \E i \in 2..(Len(s) - 1) : s[i] = "@"

\* C15: an Insert of a user whose email is not empty and has not the form of
\* an e-mail address fails with an error and stores nothing.
InvalidEmailInsertFails ==
    [][(/\ ~IsBooks(ItemIDKey)
        /\ last'.op = "Insert"
        /\ ~IsEmptyString(last'.item["email"])
        /\ ~ValidEmailFormat(last'.item["email"]))
       => (last'.err # "nil" /\ Coll' = Coll)]_vars

\* The operations of the HTTP routes.
HttpOps == {"POST", "GET:id", "GET", "PUT", "DELETE"}

\* The request is answered as a failure.
Failed(l) == l.op \in HttpOps /\ l.resp.status >= StatusBadRequest

\* The request names the primary key of no stored record.
UnknownIDCause(l) ==
    \/ l.op = "GET:id" /\ ~IsStored(l.id)
    \/ l.op \in {"PUT", "DELETE"} /\ Bound(l) /\ ~IsStored(GetID(ItemIDKey, l.item))

\* The request is not valid: a body that cannot be bound, an item to insert
\* that lacks a field, categories that are nil or repeat an element, a page
\* below 1, a match option that is not valid.
ValidationCause(l) ==
    \/ l.op \in {"POST", "GET", "PUT", "DELETE"} /\ ~Bound(l)
    \/ l.op = "POST" /\ Bound(l) /\ ~PassesValidation(l.item)
    \/ /\ l.op \in {"POST", "PUT"} /\ Bound(l) /\ IsBooks(ItemIDKey)
       /\ \/ ~UniqueItems(l.item["categories"].elems)
          \/ l.op = "PUT" /\ l.item["categories"].isNil
    \/ l.op = "GET" /\ Bound(l) /\ (l.opt.CurrentPage < 1 \/ ~OptionsValid(l.opt))

\* The item repeats the value of a unique field of a stored record (for an
\* update: of another stored record).
ConflictCause(l) ==
    \/ l.op = "POST" /\ Bound(l) /\ Collides(l.item)
    \/ /\ l.op = "PUT" /\ Bound(l)
       /\ \E i \in 1..Len(Coll), k \in UniqueFields \ {ItemIDKey} :
             /\ StoredItems[i][ItemIDKey] # GetID(ItemIDKey, l.item)
             /\ StoredItems[i][k] = l.item[k]

\* C16: a failure of an HTTP operation is answered with status 404 when the
\* cause is an unknown id, with 400 when it is a validation failure or a
\* uniqueness conflict, and with 500 only when it is none of these.
FailureStatusFollowsCause ==
    [][Failed(last')
       => (/\ UnknownIDCause(last') => last'.resp.status = StatusNotFound
           /\ (~UnknownIDCause(last') /\ (ValidationCause(last') \/ ConflictCause(last')))
                 => last'.resp.status = StatusBadRequest
           /\ last'.resp.status = StatusInternalServerError
                 => ~(UnknownIDCause(last') \/ ValidationCause(last') \/ ConflictCause(last')))]_vars

\* The body cannot be bound to search options: there is none, or a match
\* option of it has a match_type below 0 or above 255.
Unbindable(body) ==
    \/ ~body.present
    \/ \E k \in DOMAIN body.json \ {"current_page", "user_id", "categories"} :
          body.json[k].match_type < 0 \/ body.json[k].match_type > 255

\* C17: a search request whose body cannot be bound to search options is
\* answered with status 400, an error that is not empty and no result, and
\* the store is not queried.
UnboundSearchIsBadRequest ==
    [][\A body \in SearchBodies(ItemIDKey) :
          (Unbindable(body) /\ GetItems(body))
          => (/\ last'.resp.status = StatusBadRequest
              /\ Len(last'.resp.body) = 1
              /\ DOMAIN last'.resp.body[1] = {"error"}
              /\ ~BaseErrorIsNil(last'.resp.body[1].error)
              /\ last'.page = EmptyPage
              /\ last'.aggregates = 0)]_vars

\* A search request with a match_type that is no uint8 was answered while a
\* record is stored.
WitnessUnboundSearch ==
    /\ last.op = "GET" /\ last.err = "UnmarshalTypeError"
    /\ last.resp.status = StatusBadRequest
    /\ Len(Coll) > 0

\* The request is answered as a success.
Succeeded(l) == l.op \in HttpOps /\ l.resp.status < StatusBadRequest

\* The response has no body.
EmptyBody(l) == l.resp.body = <<>>

\* The response body is one object with the key "result" alone.
ResultEnvelope(l) == Len(l.resp.body) = 1 /\ DOMAIN l.resp.body[1] = {"result"}

\* C18: a successful HTTP request is answered with 201 and the OK result for
\* an insert, with 200 and a result envelope for a read of one item and for
\* a search, with 204 and an empty body for an update and a delete; no
\* response body carries both a result and an error.
SuccessStatusAndEnvelope ==
    /\ (Succeeded(last) /\ last.op = "POST")
          => (/\ last.resp.status = 201
              /\ ResultEnvelope(last)
              /\ last.resp.body[1].result = [status |-> "OK"])
    /\ (Succeeded(last) /\ last.op = "GET:id")
          => (/\ last.resp.status = 200
              /\ ResultEnvelope(last)
              /\ last.resp.body[1].result = last.out)
    /\ (Succeeded(last) /\ last.op = "GET")
          => (/\ last.resp.status = 200
              /\ ResultEnvelope(last)
              /\ last.resp.body[1].result = last.page)
    /\ (Succeeded(last) /\ last.op \in {"PUT", "DELETE"})
          => (last.resp.status = 204 /\ EmptyBody(last))
    /\ \A i \in 1..Len(last.resp.body) :
          ~({"result", "error"} \subseteq DOMAIN last.resp.body[i])
    /\ (last.op \in HttpOps /\ last.err = "nil") => Succeeded(last)

\* A search over HTTP succeeded and returned a stored record.
WitnessSuccessfulSearch ==
    /\ last.op = "GET" /\ last.resp.status = 200
    /\ last.page.Count = 1
    /\ last.resp.body[1].result.Data.elems # <<>>

-----------------------------------------------------------------------------
(* Properties of the queries of Search *)

\* C19: a Search issues at most one aggregation to the store: exactly one
\* when it succeeds, none when it fails on currentPage < 1 or on a match
\* option that is not valid.
SearchAggregatesAtMostOnce ==
    last.op = "Search"
    => (/\ last.aggregates \in {0, 1}
        /\ last.err = "nil" => last.aggregates = 1
        /\ (last.opt.CurrentPage < 1 \/ ~OptionsValid(last.opt))
              => (last.err # "nil" /\ last.aggregates = 0))

\* A Search of page 0, and a Search with a match option that is not valid,
\* ran on a store that holds records.
WitnessSearchWithoutAggregate ==
    /\ last.op = "Search" /\ last.aggregates = 0
    /\ last.opt.CurrentPage >= 1 /\ ~OptionsValid(last.opt)
    /\ Len(Coll) = 2

-----------------------------------------------------------------------------
(* Properties of the match kinds *)

\* The kinds a match option can have.
MatchKinds ==
    {EqualMatchType, PartialMatchType, StartWithMatchType, EndWithMatchType, ContainsInMatchType}

\* The match options of the search options, in the order Search compiles them.
OptionsInOrder(opt) ==
    IF IsBooks(ItemIDKey) THEN <<opt.Title, opt.Author>>
    ELSE <<opt.AccountName, opt.Username, opt.Email>>

\* The option is compiled and refused.
Refused(m) ==
    ~IsNil(m) /\ (m.MatchType \notin MatchKinds \/ m.MatchType = ContainsInMatchType)

\* A match option of the search options has a kind that is none of the five.
CarriesUnknownKind(opt) ==
    \E i \in DOMAIN OptionsInOrder(opt) : OptionsInOrder(opt)[i].MatchType \notin MatchKinds

\* The first refused option of the search options has such a kind.
FirstRefusedIsUnknownKind(opt) ==
    \E i \in DOMAIN OptionsInOrder(opt) :
       /\ OptionsInOrder(opt)[i].MatchType \notin MatchKinds
       /\ \A j \in 1..(i - 1) : ~Refused(OptionsInOrder(opt)[j])

\* Compiling a match of a kind that is none of the five yields
\* MatchTypeInvalid and no fragment.
UnknownKindCompilesToError ==
    \A kind \in (0..MaxMatchType) \ MatchKinds, value \in {AnyString(sA), AnySlice(MkSlice(<<sA>>))} :
       CreateMatchBson("title", value, kind) = [err |-> "MatchTypeInvalid", bson |-> EmptyMatchBson]

\* C20 as stated: compiling a match of a kind other than Equal, Partial,
\* StartsWith, EndsWith or ContainsIn yields MatchTypeInvalid and no
\* fragment, and a Search that carries a match option of such a kind with
\* currentPage >= 1 fails with MatchTypeInvalid and an empty result.
UnknownKindSearchFailsMatchTypeInvalid ==
    /\ UnknownKindCompilesToError
    /\ (last.op = "Search" /\ last.opt.CurrentPage >= 1 /\ CarriesUnknownKind(last.opt))
          => (last.err = "MatchTypeInvalid" /\ last.page = EmptyPage)

\* C20 amended: compiling a match of such a kind yields MatchTypeInvalid and
\* no fragment; a Search that carries a match option of such a kind with
\* currentPage >= 1 fails with an empty result, with MatchTypeInvalid when
\* that option is the first one the Search refuses and otherwise with
\* MatchValueInvalid, the error of the option refused before it.
UnknownKindSearchFailsWithFirstError ==
    /\ UnknownKindCompilesToError
    /\ (last.op = "Search" /\ last.opt.CurrentPage >= 1 /\ CarriesUnknownKind(last.opt))
          => (/\ last.page = EmptyPage
              /\ last.aggregates = 0
              /\ last.err = IF FirstRefusedIsUnknownKind(last.opt)
                            THEN "MatchTypeInvalid" ELSE "MatchValueInvalid")

\* A Search of page 2 with a match option of an unknown kind was refused
\* with MatchTypeInvalid on a store that holds two records.
WitnessUnknownKindSearch ==
    /\ last.op = "Search" /\ last.opt.CurrentPage = 2
    /\ last.err = "MatchTypeInvalid"
    /\ CarriesUnknownKind(last.opt)
    /\ Len(Coll) = 2

-----------------------------------------------------------------------------
(* Properties of the match predicates *)

\* The number of field constraints the search options supply.
SuppliedConstraints(opt) ==
    IF IsBooks(ItemIDKey)
    THEN Cardinality({m \in {"Title", "Author"} : ~IsNil(opt[m])})
         + (IF opt.Categories.isNil THEN 0 ELSE 1)
    ELSE Cardinality({m \in {"Username", "AccountName", "Email"} : ~IsNil(opt[m])})
         + (IF opt.UserID = <<>> THEN 0 ELSE 1)

\* The number of records on page p of `total` matching records.
OnPage(p, total) ==
    LET rest == total - (p - 1) * SearchLenLimit IN
    IF rest <= 0 THEN 0 ELSE IF rest < SearchLenLimit THEN rest ELSE SearchLenLimit

\* C21: a successful Search counts and pages over exactly the stored
\* records that satisfy every supplied field constraint at once: the count
\* is their number, the page holds as many of them as the page has room
\* for, each once and each a stored record that satisfies every constraint;
\* with no constraint supplied every stored record is counted.
SearchSelectsConjunction ==
    SearchSucceeded
    => LET data == last.page.Data.elems IN
       /\ last.page.Count = Cardinality(Matching(last.opt))
       /\ Len(data) = OnPage(last.opt.CurrentPage, Cardinality(Matching(last.opt)))
       /\ \A k \in 1..Len(data) : data[k] \in Matching(last.opt)
       /\ \A k, l \in 1..Len(data) : data[k] = data[l] => k = l
       /\ SuppliedConstraints(last.opt) = 0 => last.page.Count = Len(Coll)

\* A successful Search with two constraints counted some of the stored
\* records, fewer than satisfy one of the constraints alone.
WitnessSearchConjunction ==
    /\ SearchSucceeded
    /\ SuppliedConstraints(last.opt) = 2
    /\ last.page.Count >= 1
    /\ last.page.Count < Len(Coll)
    /\ \E i \in 1..Len(Coll) :
          /\ ~ItemMatches(StoredItems[i], last.opt)
          /\ IF IsBooks(ItemIDKey)
             THEN Satisfies(StoredItems[i]["title"], last.opt.Title)
             ELSE Satisfies(StoredItems[i]["username"], last.opt.Username)

\* The field of the records that the match requests constrain.
MatchedField == IF IsBooks(ItemIDKey) THEN "title" ELSE "username"

\* The match option of the match requests.
MatchedOption(opt) == IF IsBooks(ItemIDKey) THEN opt.Title ELSE opt.Username

\* The value is a prefix of s, ignoring case.
IsPrefixFold(s, v) == \E t \in {SubSeq(s, 1, n) : n \in 0..Len(s)} : FoldStr(t) = FoldStr(v)

\* The value is a suffix of s, ignoring case.
IsSuffixFold(s, v) == \E t \in {SubSeq(s, n + 1, Len(s)) : n \in 0..Len(s)} : FoldStr(t) = FoldStr(v)

\* The value is a substring of s, ignoring case.
IsSubstringFold(s, v) ==
    \E t \in {SubSeq(s, m, n) : m \in 1..(Len(s) + 1), n \in 0..Len(s)} : FoldStr(t) = FoldStr(v)

\* The field value s satisfies the predicate of the kind and value given.
SatisfiesPredicate(s, kind, v) ==
    CASE kind = EqualMatchType -> s = v
      [] kind = PartialMatchType -> IsSubstringFold(s, v)
      [] kind = StartWithMatchType -> IsPrefixFold(s, v)
      [] kind = EndWithMatchType -> IsSuffixFold(s, v)

\* C22: for a value of literal characters, the records a successful Search
\* with one predicate returns are exactly the stored records whose field
\* equals the value (Equal), contains it ignoring case (Partial), begins
\* with it ignoring case (StartsWith) or ends with it ignoring case
\* (EndsWith).
FieldPredicateSelectsRecords ==
    SearchSucceeded
    => LET m == MatchedOption(last.opt) IN
       {last.page.Data.elems[k] : k \in 1..SliceLen(last.page.Data)}
          = {StoredItems[i] : i \in {j \in 1..Len(Coll) :
                SatisfiesPredicate(StoredItems[j][MatchedField], m.MatchType, m.Value)}}

-----------------------------------------------------------------------------
(* Properties of the builder *)

\* The fragments and the matched fields of the builder.
Fragments(b) == b.matches.elems

MatchedKeys(b) == b.matchKeys.keys

\* The array shares an element with the candidate list.
SharesElement(array, candidates) ==
    \E i \in 1..Len(array), j \in 1..Len(candidates) : array[i] = candidates[j]

\* A ContainsIn fragment selects the documents whose array field shares an
\* element with the candidate list.
ContainsInSelectsIntersection ==
    \A array \in {<<>>, <<sA>>, <<sB>>, <<sA, sB>>}, candidates \in {<<>>, <<sA>>, <<sB, sC>>, <<sC, sA>>} :
       LET doc == [categories |-> MkSlice(array)]
           r == ContainsInMatchBson("categories", AnySlice(MkSlice(candidates))) IN
       /\ r.err = "nil"
       /\ MatchesBson(doc, r.bson) <=> SharesElement(array, candidates)

\* C23: a ContainsIn predicate selects exactly the records whose array field
\* shares an element with the candidate list, and a ContainsIn Match with a
\* value that is not a list fails with MatchValueInvalid and adds nothing to
\* the builder.
ContainsInNeedsList ==
    /\ ContainsInSelectsIntersection
    /\ (/\ call.op = "Match"
        /\ call.args.matchType = ContainsInMatchType
        /\ call.args.key \notin MatchedKeys(call.before)
        /\ call.args.value.kind # "slice")
       => (/\ call.err = "MatchValueInvalid"
           /\ Fragments(builder) = Fragments(call.before)
           /\ MatchedKeys(builder) = MatchedKeys(call.before))

\* The keys of the $sort stage of the builder, in order.
SortStageKeys(b) == [i \in 1..SliceLen(b.sorts) |-> b.sorts.elems[i].Key]

\* The fields the fragments of the builder constrain, in order.
FragmentKeys(b) ==
    LET frags == SelectSeq(Fragments(b), LAMBDA f : f # EmptyMatchBson) IN
    [i \in 1..Len(frags) |-> frags[i].Key]

\* No element occurs twice in the sequence.
NoRepeat(seq) == \A i, j \in 1..Len(seq) : seq[i] = seq[j] => i = j

\* The range of a sequence.
Range(seq) == {seq[i] : i \in 1..Len(seq)}

\* The $sort stage of the page branch of a built pipeline, <<>> when it has none.
BuiltSortKeys(pipeline) ==
    LET branch == pipeline[2].arg.paginate_result
        stages == SelectSeq(branch, LAMBDA st : st.stage = "$sort") IN
    IF stages = <<>> THEN <<>> ELSE [i \in 1..Len(stages[1].arg) |-> stages[1].arg[i].Key]

\* The fields of the fragments under $and of a built pipeline.
BuiltMatchKeys(pipeline) ==
    LET frags == SelectSeq(pipeline[1].arg, LAMBDA f : f # EmptyMatchBson) IN
    [i \in 1..Len(frags) |-> frags[i].Key]

\* C24: SortedBy fails with SortListInvalid for an empty list and with the
\* duplicate-key error MatchKeyDuplicated when a key of the list is already
\* a sort key or stands earlier in the list; Match fails with
\* MatchKeyDuplicated when the field already has a match; a built pipeline
\* holds each sort key and each matched field at most once.
BuilderRefusesDuplicates ==
    /\ (call.op = "SortedBy" /\ call.args = <<>>) => call.err = "SortListInvalid"
    /\ (/\ call.op = "SortedBy" /\ call.args # <<>>
        /\ \/ \E i \in 1..Len(call.args) : call.args[i].Key \in Range(SortStageKeys(call.before))
           \/ ~NoRepeat([i \in 1..Len(call.args) |-> call.args[i].Key]))
       => call.err = "MatchKeyDuplicated"
    /\ (call.op = "Match" /\ call.args.key \in Range(FragmentKeys(call.before)))
       => call.err = "MatchKeyDuplicated"
    /\ call.op = "BuildPipeline"
       => (NoRepeat(BuiltSortKeys(call.pipeline)) /\ NoRepeat(BuiltMatchKeys(call.pipeline)))
    /\ NoRepeat(SortStageKeys(builder)) /\ NoRepeat(FragmentKeys(builder))

\* A Match of a field that has a match was refused on a builder with two
\* sort keys and two fragments.
WitnessBuilderRefusedDuplicates ==
    /\ call.op = "Match" /\ call.err = "MatchKeyDuplicated"
    /\ Len(SortStageKeys(builder)) = 2
    /\ Len(FragmentKeys(builder)) = 2

\* The names of the stages of a pipeline or of a facet branch.
StageNames(stages) == [i \in 1..Len(stages) |-> stages[i].stage]

\* The names in `names` that are among `wanted`, in the order of `names`.
Only(names, wanted) == SelectSeq(names, LAMBDA n : n \in wanted)

\* C26: whatever calls were made on the builder and in whatever order, the
\* built pipeline is the match stage, the facet stage and the projection;
\* the page branch of the facet sorts, then skips, then limits (each when it
\* was set) and then groups; the count branch counts the matching rows
\* with no skip and no limit.
PipelineStagesInFixedOrder ==
    call.op = "BuildPipeline"
    => LET page == StageNames(call.pipeline[2].arg.paginate_result)
           count == StageNames(call.pipeline[2].arg.match_result) IN
       /\ StageNames(call.pipeline) = <<"$match", "$facet", "$project">>
       /\ page = (IF call.before.sorts.isNil THEN <<>> ELSE <<"$sort">>)
                 \o (IF call.before.skip.isNil THEN <<>> ELSE <<"$skip">>)
                 \o (IF call.before.limit.isNil THEN <<>> ELSE <<"$limit">>)
                 \o <<"$group">>
       /\ Only(<<"$sort", "$skip", "$limit", "$group">>, Range(page)) = page
       /\ count = <<"$count">>

\* A pipeline with all four page stages and two fragments was built, and
\* the builder goes on to be used.
WitnessPipelineBuilt ==
    /\ call.op = "BuildPipeline"
    /\ Len(call.pipeline[2].arg.paginate_result) = 4
    /\ Len(BuiltMatchKeys(call.pipeline)) = 2
    /\ Len(BuiltSortKeys(call.pipeline)) = 2

\* C27: a SortedBy call that fails leaves the builder as it was: the keys of
\* the sort stage and the set of used keys are those of before the call, so
\* every used key is a key of the sort stage and a key the failed call did
\* not put into the sort stage is still free for a later SortedBy.
FailedSortedByLeavesBuilder ==
    /\ (call.op = "SortedBy" /\ call.err # "nil")
       => /\ SortStageKeys(builder) = SortStageKeys(call.before)
          /\ builder.sortKeys.keys = call.before.sortKeys.keys
    /\ builder.sortKeys.keys \subseteq Range(SortStageKeys(builder))

\* The claim of C27 for the failures that happen before the loop adds a key:
\* the empty list, and a list whose first key is already used.
FailedSortedByAtFirstKeyLeavesBuilder ==
    (/\ call.op = "SortedBy"
     /\ call.err # "nil"
     /\ (call.args = <<>> \/ Head(call.args).Key \in call.before.sortKeys.keys))
    => /\ SortStageKeys(builder) = SortStageKeys(call.before)
       /\ builder.sortKeys.keys = call.before.sortKeys.keys

\* The fragments of the match stage of a built pipeline.
BuiltFragments(pipeline) == pipeline[1].arg

\* C28: BuildPipeline leaves the matches, matched keys, sort keys, skip and
\* limit of the builder as they were; building again yields the same
\* pipeline; a Match of a value that is not the nil interface completes
\* normally (it returns, with or without an error), also after a build, and
\* a built pipeline with fragments added through Match holds those
\* fragments only.
BuildPipelineLeavesBuilder ==
    /\ call.op = "BuildPipeline"
       => /\ builder = call.before
          /\ BuildPipeline(builder) = call.pipeline
    /\ (call.op = "Match" /\ call.args.value # AnyNil) => call.err # "panic"
    /\ (call.op = "BuildPipeline" /\ call.before.matchKeys.keys # {})
       => \A i \in 1..Len(BuiltFragments(call.pipeline)) :
              BuiltFragments(call.pipeline)[i] # EmptyMatchBson

\* The parts of C28 about the pipeline and about the sort, skip and limit
\* stages: a build changes neither of those stages nor the used keys, and
\* building again yields the same pipeline.
BuildPipelineRepeatable ==
    call.op = "BuildPipeline"
    => /\ BuildPipeline(builder) = call.pipeline
       /\ builder.sorts = call.before.sorts
       /\ builder.sortKeys = call.before.sortKeys
       /\ builder.matchKeys = call.before.matchKeys
       /\ builder.skip = call.before.skip
       /\ builder.limit = call.before.limit

\* The primary keys of the stored records, in natural order.
PrimaryKeys(coll) == [i \in 1..Len(coll) |-> Decode(ItemIDKey, coll[i])[ItemIDKey]]

\* C29: Update creates no record, removes none and changes no primary key:
\* a step that completes an Update, successful or failed, leaves the primary
\* keys of the collection as they were, whatever Inserts and Deletes it is
\* interleaved with; the set of primary keys changes only in a step that
\* completes an Insert or a Delete.
UpdateKeepsPrimaryKeys ==
    [][/\ last'.op = "Update" => PrimaryKeys(Coll') = PrimaryKeys(Coll)
       /\ Range(PrimaryKeys(Coll')) # Range(PrimaryKeys(Coll))
          => last'.op \in {"Insert", "Delete"}]_vars

\* An Update has changed the record of an id while an Insert that passed its
\* pre-check is still on its way to the store.
WitnessUpdateAmongInserts ==
    /\ last.op = "Update"
    /\ last.err = "nil"
    /\ \E i \in 1..Len(Coll) :
          /\ PrimaryKeys(Coll)[i] = GetID(ItemIDKey, last.item)
          /\ Decode(ItemIDKey, Coll[i]) = last.item
    /\ \E p \in Procs : pc[p] = "insert"

\* An Update of an id that a Delete has just removed has failed, and the id
\* is still not stored.
WitnessUpdateAfterDelete ==
    /\ last.op = "Update"
    /\ last.err = "ObjectIDNotFound"
    /\ Len(Coll) > 0
    /\ ~IsStoredIn(Coll, GetID(ItemIDKey, last.item))

\* C30: the configuration is loaded once: a GetEnv after a successful one
\* succeeds and returns the configuration the first successful GetEnv
\* returned, whatever the environment has become; a failed GetEnv leaves
\* the loaded configuration as it was.
ConfigurationLoadedOnce ==
    call.op = "GetEnv"
    => /\ call.loaded => (call.err = "nil" /\ call.out = call.first)
       /\ call.err # "nil" => env = call.prev
       /\ Loaded => env = call.first

\* The part of C30 about a failed GetEnv: it returns the nil pointer and
\* leaves env as it was.
FailedGetEnvKeepsConfiguration ==
    (call.op = "GetEnv" /\ call.err # "nil") => (call.isNil /\ env = call.prev)

\* A GetEnv has failed after a configuration was loaded.
WitnessFailedGetEnvAfterLoad ==
    call.op = "GetEnv" /\ call.err # "nil" /\ call.loaded /\ env # ZeroEnv

\* C25: under any interleaving of concurrent requests, the error value a
\* request obtains from ObjectIDNotFoundError.New(id) carries the message
\* formatted from the id of that request.
ErrorCarriesOwnMessage ==
    (last.op = "GetByID" /\ last.err = "ObjectIDNotFound")
    => last.message = NewMessage(ObjectIDNotFoundFormat, MkSlice(<<last.id>>))

====
